---- MODULE Spec2Model ----
(***************************************************************************)
(* Model of the auto insurance claim workflow of                           *)
(* notebooks/auto_insurance_claims.ipynb: the six steps of                 *)
(* AutoInsuranceWorkflow, the events that chain them, the per-run Context, *)
(* the progress stream and the stream_workflow caller.                     *)
(*                                                                         *)
(* Conventions.  An Optional value is a sequence of length 0 (None) or 1.  *)
(* A str that the code inspects character by character is a sequence of    *)
(* one-character strings; a text blob is a sequence of tokens, the token   *)
(* "\n\n" being the blank line.  An exception is the name of its class.    *)
(***************************************************************************)
EXTENDS Integers, Sequences, FiniteSets, TLC

(* ------------------------------ bounds --------------------------------- *)

\* longest list of queries the reasoning collaborator returns
MaxQueries == 2

\* longest result list of one retrieval call
MaxDocs == 2

\* longest result list of the declarations lookup
MaxDeclarations == 2

(* --------------------------- small helpers ----------------------------- *)

None == <<>>

Some(v) == <<v>>

SeqsUpTo(S, n) == UNION {[1..k -> S] : k \in 0..n}

Range(s) == {s[i] : i \in 1..Len(s)}

(* ------------------------------ str ------------------------------------ *)

UpperChars == <<"A","B","C","D","E","F","G","H","I","J","K","L","M",
                "N","O","P","Q","R","S","T","U","V","W","X","Y","Z">>

LowerChars == <<"a","b","c","d","e","f","g","h","i","j","k","l","m",
                "n","o","p","q","r","s","t","u","v","w","x","y","z">>

\* str.lower() on one character
LowerChar(c) ==
    IF \E i \in 1..Len(UpperChars) : UpperChars[i] = c
    THEN LowerChars[CHOOSE i \in 1..Len(UpperChars) : UpperChars[i] = c]
    ELSE c

\* str.lower()
Lower(s) == [i \in 1..Len(s) |-> LowerChar(s[i])]

\* sub in s, for sequences
Contains(s, sub) ==
    \E i \in 0..(Len(s) - Len(sub)) :
        \A j \in 1..Len(sub) : s[i + j] = sub[j]

\* the literal "covered" of finalize_decision
Covered == <<"c","o","v","e","r","e","d">>

\* the separator "\n\n" of retrieve_policy_text
BlankLine == "\n\n"

\* sep.join(parts), parts a sequence of token sequences
RECURSIVE Join(_, _)
Join(parts, sep) ==
    IF Len(parts) = 0 THEN <<>>
    ELSE IF Len(parts) = 1 THEN parts[1]
    ELSE parts[1] \o <<sep>> \o Join(Tail(parts), sep)

(* --------------------------- claim source ------------------------------ *)

\* a JSON string value and a JSON number value
Str(v) == [t |-> "str", v |-> v]

Num(v) == [t |-> "num", v |-> v]

\* the JSON value null, None once loaded
Null == [t |-> "null", v |-> <<>>]

\* the files a caller may name; john.json is the notebook's example claim
Paths == {"john.json", "alice.json", "nopolicy.json", "wrongtype.json",
          "quoted.json", "broken.json", "missing.json"}

\* the two paths of the notebook's own runs
NotebookPaths == {"john.json", "alice.json"}

JohnJson ==
    [claim_number |-> Str("CLAIM-0001"), policy_number |-> Str("POLICY-ABC123"),
     claimant_name |-> Str("John Smith"), date_of_loss |-> Str("2024-04-10"),
     loss_description |-> Str("collided with a parked car"),
     estimated_repair_cost |-> Num(1500),
     vehicle_details |-> Str("2022 Honda Civic")]

AliceJson ==
    [claim_number |-> Str("CLAIM-0002"), policy_number |-> Str("POLICY-XYZ789"),
     claimant_name |-> Str("Alice Johnson"), date_of_loss |-> Str("2024-05-02"),
     loss_description |-> Str("rear-end collision"),
     estimated_repair_cost |-> Num(2200)]

NoPolicyJson ==
    [claim_number |-> Str("CLAIM-0003"),
     claimant_name |-> Str("Bob Brown"), date_of_loss |-> Str("2024-06-01"),
     loss_description |-> Str("hail damage"),
     estimated_repair_cost |-> Num(800)]

WrongTypeJson ==
    [claim_number |-> Str("CLAIM-0004"), policy_number |-> Str("POLICY-DEF456"),
     claimant_name |-> Str("Carol White"), date_of_loss |-> Str("2024-07-15"),
     loss_description |-> Str("broken windshield"),
     estimated_repair_cost |-> Str(<<"a", " ", "l", "o", "t">>)]

\* the claim of john.json with the repair cost written as a JSON string
QuotedJson ==
    [claim_number |-> Str("CLAIM-0001"), policy_number |-> Str("POLICY-ABC123"),
     claimant_name |-> Str("John Smith"), date_of_loss |-> Str("2024-04-10"),
     loss_description |-> Str("collided with a parked car"),
     estimated_repair_cost |-> Str(<<"1", "5", "0", "0">>),
     vehicle_details |-> Str("2022 Honda Civic")]

\* what the file system holds at each path before any run
FileSystem ==
    [p \in Paths |->
        CASE p = "john.json"      -> [kind |-> "json", data |-> JohnJson]
          [] p = "alice.json"     -> [kind |-> "json", data |-> AliceJson]
          [] p = "nopolicy.json"  -> [kind |-> "json", data |-> NoPolicyJson]
          [] p = "wrongtype.json" -> [kind |-> "json", data |-> WrongTypeJson]
          [] p = "quoted.json"    -> [kind |-> "json", data |-> QuotedJson]
          [] p = "broken.json"    -> [kind |-> "text"]
          [] OTHER                -> [kind |-> "absent"]]

\* the str fields ClaimInfo requires
RequiredStrFields == {"claim_number", "policy_number", "claimant_name",
                      "date_of_loss", "loss_description"}

Digits == <<"0", "1", "2", "3", "4", "5", "6", "7", "8", "9">>

\* the characters are the decimal digits of a number
IsNumeric(chars) ==
    /\ chars # <<>>
    /\ \A i \in 1..Len(chars) : chars[i] \in Range(Digits)

\* float(chars) of decimal digits
RECURSIVE ToFloat(_)
ToFloat(chars) ==
    IF chars = <<>> THEN 0
    ELSE LET last == chars[Len(chars)]
             digit == (CHOOSE i \in 1..10 : Digits[i] = last) - 1
         IN 10 * ToFloat(SubSeq(chars, 1, Len(chars) - 1)) + digit

\* a value that validation takes for a float field: a number, or a string
\* that float() converts
FloatValid(x) == x.t = "num" \/ (x.t = "str" /\ IsNumeric(x.v))

\* the float that validation makes of the value
Float(x) == IF x.t = "num" THEN x.v ELSE ToFloat(x.v)

\* ClaimInfoValid, had a float field taken numbers only
ClaimInfoValidStrict(data) ==
    /\ \A f \in RequiredStrFields : f \in DOMAIN data /\ data[f].t = "str"
    /\ "estimated_repair_cost" \in DOMAIN data
    /\ data["estimated_repair_cost"].t = "num"
    /\ "vehicle_details" \in DOMAIN data =>
          data["vehicle_details"].t \in {"str", "null"}

\* ClaimInfoValid, had vehicle_details been a str that must not be None
ClaimInfoValidNoNone(data) ==
    /\ \A f \in RequiredStrFields : f \in DOMAIN data /\ data[f].t = "str"
    /\ "estimated_repair_cost" \in DOMAIN data
    /\ FloatValid(data["estimated_repair_cost"])
    /\ "vehicle_details" \in DOMAIN data => data["vehicle_details"].t = "str"

\* ClaimInfo.model_validate(data) succeeds; vehicle_details is
\* Optional[str] = None: left out, None or a str
ClaimInfoValid(data) ==
    /\ \A f \in RequiredStrFields : f \in DOMAIN data /\ data[f].t = "str"
    /\ "estimated_repair_cost" \in DOMAIN data
    /\ FloatValid(data["estimated_repair_cost"])
    /\ "vehicle_details" \in DOMAIN data =>
          data["vehicle_details"].t \in {"str", "null"}

\* the ClaimInfo that model_validate builds from valid data
ClaimInfo(data) ==
    [claim_number |-> data["claim_number"].v,
     policy_number |-> data["policy_number"].v,
     claimant_name |-> data["claimant_name"].v,
     date_of_loss |-> data["date_of_loss"].v,
     loss_description |-> data["loss_description"].v,
     estimated_repair_cost |-> Float(data["estimated_repair_cost"]),
     vehicle_details |-> IF /\ "vehicle_details" \in DOMAIN data
                            /\ data["vehicle_details"].t = "str"
                         THEN Some(data["vehicle_details"].v) ELSE None]

\* claim_info.model_dump(): every field of the ClaimInfo, None included
model_dump(claim_info) ==
    [claim_number |-> Str(claim_info.claim_number),
     policy_number |-> Str(claim_info.policy_number),
     claimant_name |-> Str(claim_info.claimant_name),
     date_of_loss |-> Str(claim_info.date_of_loss),
     loss_description |-> Str(claim_info.loss_description),
     estimated_repair_cost |-> Num(claim_info.estimated_repair_cost),
     vehicle_details |-> IF claim_info.vehicle_details = None THEN Null
                         ELSE Str(claim_info.vehicle_details[1])]

\* the file system: what open() and json.load() find at each path
VARIABLE files

\* OpenRead, had the file been opened for writing
OpenWrite(fs, file_path) == [fs EXCEPT ![file_path] = [kind |-> "text"]]

\* the file system after open(file_path, "r"), as it was: a missing file
\* is not created
OpenRead(fs, file_path) == fs

\* parse_claim(file_path): [ok |-> TRUE, value |-> ClaimInfo] or the
\* exception that open, json.load or model_validate raises
parse_claim(file_path) ==
    LET f == OpenRead(files, file_path)[file_path] IN
    IF f.kind = "absent" THEN [ok |-> FALSE, error |-> "FileNotFoundError"]
    ELSE IF f.kind = "text" THEN [ok |-> FALSE, error |-> "JSONDecodeError"]
    ELSE IF ~ClaimInfoValid(f.data) THEN [ok |-> FALSE, error |-> "ValidationError"]
    ELSE [ok |-> TRUE, value |-> ClaimInfo(f.data)]

(* --------------------------- collaborators ----------------------------- *)

\* query strings the reasoning collaborator produces, as in the CLAIM-0001 run
QueryPool == <<"Collision coverage conditions", "Deductible application",
               "Special endorsements", "No-fault scenario coverage",
               "Endorsements related to delivery driving">>

\* PolicyQueries values: the first queries of the pool
PolicyQueries == [queries : {SubSeq(QueryPool, 1, k) : k \in 0..MaxQueries}]

\* the nodes of the policy index; a text may itself hold a blank line
PolicyNodes ==
    {[id_ |-> "n1", text |-> <<"Collision Coverage">>],
     [id_ |-> "n2", text |-> <<"Deductible", BlankLine, "Waiver">>]}

\* what policy_retriever.aretrieve(query) may return
RetrievalResults == SeqsUpTo(PolicyNodes, MaxDocs)

\* the policy numbers of the valid claim files
PolicyNumbers == {"POLICY-ABC123", "POLICY-XYZ789"}

\* the declarations pages a lookup by policy number may find: a page of
\* its own id, a page whose id is also the id of a node of the policy
\* index, and a page that is itself a node of the policy index
DeclarationNodes(policy_number) ==
    IF policy_number = "POLICY-ABC123"
    THEN {[id_ |-> "dj", text |-> <<"Declarations John">>],
          [id_ |-> "n1", text |-> <<"Declarations John (copy)">>],
          [id_ |-> "n2", text |-> <<"Deductible", BlankLine, "Waiver">>]}
    ELSE {[id_ |-> "da", text |-> <<"Declarations Alice">>]}

\* what get_declarations_docs(policy_number) may return
DeclarationResults(policy_number) ==
    SeqsUpTo(DeclarationNodes(policy_number), MaxDeclarations)

\* recommendation summaries, as character sequences
Summaries ==
    {<<"c","o","v","e","r","e","d">>,
     <<"N","o","t"," ","C","O","V","E","R","E","D">>,
     <<"d","e","n","i","e","d">>,
     <<"c","o","v","e","r","a","g","e">>}

\* Optional[float] values of deductible and of settlement_amount
Deductibles == {None, Some(0), Some(500)}

Settlements == {None, Some(-100), Some(0), Some(1000), Some(1700)}

\* PolicyRecommendation values
PolicyRecommendations ==
    [policy_section : {"Collision Coverage"},
     recommendation_summary : Summaries,
     deductible : Deductibles,
     settlement_amount : Settlements]

\* the fields of PolicyRecommendation
RecommendationFields ==
    {"policy_section", "recommendation_summary", "deductible", "settlement_amount"}

\* PolicyRecommendationValid, had deductible and settlement_amount been
\* required
PolicyRecommendationValidAll(raw) ==
    RecommendationFields \subseteq DOMAIN raw

\* policy_section and recommendation_summary are Field(...), deductible and
\* settlement_amount are Field(None)
PolicyRecommendationValid(raw) ==
    {"policy_section", "recommendation_summary"} \subseteq DOMAIN raw

\* the PolicyRecommendation built from a valid response
PolicyRecommendation(raw) ==
    [policy_section |-> raw.policy_section,
     recommendation_summary |-> raw.recommendation_summary,
     deductible |-> IF "deductible" \in DOMAIN raw THEN raw.deductible ELSE None,
     settlement_amount |->
        IF "settlement_amount" \in DOMAIN raw THEN raw.settlement_amount ELSE None]

\* the responses of the llm that hold some of the fields of the
\* recommendations given
Responses(recommendations) ==
    {[f \in K |-> rec[f]] : rec \in recommendations, K \in SUBSET RecommendationFields}

\* exceptions of the collaborators' clients
LlmErrors == {"APIError", "ValidationError"}

RetrieverErrors == {"RetrieverError"}

\* the answers the collaborators may give
Full ==
    [paths |-> Paths,
     queries |-> PolicyQueries,
     results |-> RetrievalResults,
     declarations |-> [p \in PolicyNumbers |-> DeclarationResults(p)],
     recommendations |-> PolicyRecommendations,
     llm_errors |-> LlmErrors,
     retriever_errors |-> RetrieverErrors,
     keep |-> FALSE,
     hear |-> FALSE]

\* the same answers for the notebook's claims, each retrieval answer kept
\* for inspection
Audit ==
    [paths |-> NotebookPaths,
     queries |-> PolicyQueries,
     results |-> RetrievalResults,
     declarations |-> [p \in PolicyNumbers |-> DeclarationResults(p)],
     recommendations |-> PolicyRecommendations,
     llm_errors |-> LlmErrors,
     retriever_errors |-> RetrieverErrors,
     keep |-> TRUE,
     hear |-> FALSE]

\* a small family of answers, for two concurrent runs
Small ==
    [paths |-> NotebookPaths,
     queries |-> {q \in PolicyQueries : Len(q.queries) <= 1},
     results |-> {d \in RetrievalResults : Len(d) = 1 /\ d[1].id_ = "n1"},
     declarations |-> [p \in PolicyNumbers |->
                         {d \in DeclarationResults(p) :
                            Len(d) = 1 /\ d[1].id_ \in {"dj", "da", "n1"}}],
     recommendations |->
        {rec \in PolicyRecommendations :
            /\ rec.deductible = Some(500)
            /\ \/ rec.settlement_amount = Some(1000) /\ rec.recommendation_summary = Covered
               \/ rec.settlement_amount = None /\ Len(rec.recommendation_summary) = 6},
     llm_errors |-> {"APIError"},
     retriever_errors |-> RetrieverErrors,
     keep |-> FALSE,
     hear |-> TRUE]

\* the small family with query sets of every length, a file that is not
\* there and a declarations lookup that may find nothing
Several ==
    [Small EXCEPT
        !.paths = NotebookPaths \cup {"missing.json"},
        !.queries = PolicyQueries,
        !.declarations = [p \in PolicyNumbers |->
                            {d \in DeclarationResults(p) :
                               Len(d) <= 1 /\ \A i \in 1..Len(d) :
                                                d[i].id_ \in {"dj", "da", "n1"}}],
        !.llm_errors = LlmErrors,
        !.hear = FALSE]

\* the small family, the llm answering the recommendation with any of its
\* fields left out
Partial ==
    [Small EXCEPT
        !.recommendations = Responses(Small.recommendations),
        !.llm_errors = LlmErrors]

(* ------------------- retrieve_policy_text: the merge ------------------- *)

\* DictSet, had combined_docs been a list
DictSetAppend(combined_docs, d) == Append(combined_docs, d)

\* DictSet, had a key that is already set kept its value
DictSetDefault(combined_docs, d) ==
    IF \E i \in 1..Len(combined_docs) : combined_docs[i].id_ = d.id_
    THEN combined_docs
    ELSE Append(combined_docs, d)

\* DictSet, had a key that is set again moved to the end
DictSetMoveToEnd(combined_docs, d) ==
    Append(SelectSeq(combined_docs, LAMBDA x : x.id_ # d.id_), d)

\* combined_docs is a dict, kept as the sequence of its values in
\* insertion order; combined_docs[d.id_] = d
DictSet(combined_docs, d) ==
    IF \E i \in 1..Len(combined_docs) : combined_docs[i].id_ = d.id_
    THEN [i \in 1..Len(combined_docs) |->
            IF combined_docs[i].id_ = d.id_ THEN d ELSE combined_docs[i]]
    ELSE Append(combined_docs, d)

\* MergeDocs, had documents been merged only into a dict that already
\* holds a search result
MergeDocsIfSearched(combined_docs, docs) ==
    IF combined_docs = <<>> \/ docs = <<>> THEN combined_docs
    ELSE [i \in 1..(Len(combined_docs) + 1) |->
            IF i <= Len(combined_docs) THEN combined_docs[i] ELSE docs[1]]

\* for d in docs: combined_docs[d.id_] = d
RECURSIVE MergeDocs(_, _)
MergeDocs(combined_docs, docs) ==
    IF docs = <<>> THEN combined_docs
    ELSE MergeDocs(DictSet(combined_docs, Head(docs)), Tail(docs))

\* FirstDoc, had any number of results but one been refused
FirstDocOfOne(docs) ==
    IF Len(docs) # 1 THEN [ok |-> FALSE, error |-> "IndexError"]
    ELSE [ok |-> TRUE, value |-> <<docs[1]>>]

\* FirstDoc, had an empty result list been passed over
FirstDocIfAny(docs) ==
    [ok |-> TRUE, value |-> IF docs = <<>> THEN <<>> ELSE <<docs[1]>>]

\* get_declarations_docs(...)[0]: the first result, or the IndexError of
\* subscripting an empty list
FirstDoc(docs) ==
    IF docs = <<>> THEN [ok |-> FALSE, error |-> "IndexError"]
    ELSE [ok |-> TRUE, value |-> <<docs[1]>>]

\* "\n\n".join([doc.get_content() for doc in combined_docs.values()])
PolicyText(combined_docs) ==
    Join([i \in 1..Len(combined_docs) |-> combined_docs[i].text], BlankLine)

(* ------------------- finalize_decision: the rule ----------------------- *)

\* CoveredRule, had the summary not been lowercased
CoveredRuleNoLower(rec) ==
    \/ Contains(rec.recommendation_summary, Covered)
    \/ (rec.settlement_amount # None /\ rec.settlement_amount[1] > 0)

\* "covered" in rec.recommendation_summary.lower() or
\* (rec.settlement_amount is not None and rec.settlement_amount > 0)
CoveredRule(rec) ==
    \/ Contains(Lower(rec.recommendation_summary), Covered)
    \/ (rec.settlement_amount # None /\ rec.settlement_amount[1] > 0)

\* DeductibleRule, had it read the settlement amount
DeductibleRuleOfSettlement(rec) ==
    IF rec.settlement_amount # None THEN rec.settlement_amount[1] ELSE 0

\* rec.deductible if rec.deductible is not None else 0.0
DeductibleRule(rec) ==
    IF rec.deductible # None THEN rec.deductible[1] ELSE 0

\* PayoutRule, had the deductible been taken off the settlement amount
PayoutRuleNet(rec) ==
    IF rec.settlement_amount # None /\ rec.settlement_amount[1] # 0
    THEN rec.settlement_amount[1] - (IF rec.deductible # None THEN rec.deductible[1] ELSE 0)
    ELSE 0

\* rec.settlement_amount if rec.settlement_amount else 0.0
PayoutRule(rec) ==
    IF rec.settlement_amount # None /\ rec.settlement_amount[1] # 0
    THEN rec.settlement_amount[1] ELSE 0

\* ClaimDecision, had the policy number been taken for the claim number
ClaimDecisionOfPolicy(self_verbose, claim_info, rec, events) ==
    [claim_number |-> claim_info.policy_number,
     covered |-> CoveredRule(rec),
     deductible |-> DeductibleRule(rec),
     recommended_payout |-> PayoutRule(rec),
     notes |-> Some(rec.recommendation_summary)]

\* ClaimDecision, had the notes been kept only in a verbose workflow
ClaimDecisionVerboseNotes(self_verbose, claim_info, rec, events) ==
    [claim_number |-> claim_info.claim_number,
     covered |-> CoveredRule(rec),
     deductible |-> DeductibleRule(rec),
     recommended_payout |-> PayoutRule(rec),
     notes |-> IF self_verbose THEN Some(rec.recommendation_summary) ELSE None]

\* ClaimDecision, had notes been left at its default
ClaimDecisionNoNotes(self_verbose, claim_info, rec, events) ==
    [claim_number |-> claim_info.claim_number,
     covered |-> CoveredRule(rec),
     deductible |-> DeductibleRule(rec),
     recommended_payout |-> PayoutRule(rec),
     notes |-> None]

\* the ClaimDecision that finalize_decision builds in a workflow whose
\* verbose flag is self_verbose, from the claim_info it read from ctx, the
\* recommendation of its event and whatever the stream holds
ClaimDecision(self_verbose, claim_info, rec, events) ==
    [claim_number |-> claim_info.claim_number,
     covered |-> CoveredRule(rec),
     deductible |-> DeductibleRule(rec),
     recommended_payout |-> PayoutRule(rec),
     notes |-> Some(rec.recommendation_summary)]

(* ------------------------- steps and events ---------------------------- *)

\* the @step methods, in the order of the class body
StepOrder == <<"load_claim_info", "generate_policy_queries",
               "retrieve_policy_text", "generate_recommendation",
               "finalize_decision", "output_result">>

Steps == Range(StepOrder)

\* the event type of each step's ev parameter
Accepts(s) ==
    CASE s = "load_claim_info"         -> "StartEvent"
      [] s = "generate_policy_queries" -> "ClaimInfoEvent"
      [] s = "retrieve_policy_text"    -> "PolicyQueryEvent"
      [] s = "generate_recommendation" -> "PolicyMatchedEvent"
      [] s = "finalize_decision"       -> "RecommendationEvent"
      [] s = "output_result"           -> "DecisionEvent"

StartEvent(claim_json_path) ==
    [type |-> "StartEvent", claim_json_path |-> claim_json_path]

ClaimInfoEvent(claim_info) ==
    [type |-> "ClaimInfoEvent", claim_info |-> claim_info]

PolicyQueryEvent(queries) ==
    [type |-> "PolicyQueryEvent", queries |-> queries]

PolicyMatchedEvent(policy_text) ==
    [type |-> "PolicyMatchedEvent", policy_text |-> policy_text]

RecommendationEvent(recommendation) ==
    [type |-> "RecommendationEvent", recommendation |-> recommendation]

DecisionEvent(decision) ==
    [type |-> "DecisionEvent", decision |-> decision]

StopEvent(result) ==
    [type |-> "StopEvent", result |-> result]

LogEvent(msg) ==
    [msg |-> msg, delta |-> FALSE]

\* Send, had the event been queued twice
SendTwice(boxes, e) ==
    [s \in Steps |->
        IF Accepts(s) = e.type THEN boxes[s] \o <<e, e>> ELSE boxes[s]]

\* the event a step returned is queued for every step that accepts its type
Send(boxes, e) ==
    [s \in Steps |-> IF Accepts(s) = e.type THEN Append(boxes[s], e) ELSE boxes[s]]

(* ------------------------------- state --------------------------------- *)

\* what a run has heard before it is started
NothingHeard ==
    [path |-> None, queries |-> None, searches |-> <<>>,
     declarations |-> None, recommendation |-> None]

\* what an awaited call gave: the value it returned or the error it raised
Answer(v) == [value |-> Some(v), error |-> None]

Failure(e) == [value |-> None, error |-> Some(e)]

\* the runs a caller may start
Runs == {1, 2}

VARIABLES
    status,         \* per run: "NotStarted", "Running", "Done" or "Failed"
    verbose,        \* per run: self._verbose of its workflow object
    inbox,          \* per run and step: the events queued for the step
    at,             \* per run and step: "idle" or the await the step is at
    frame,          \* per run and step: Optional locals (ev, claim_info)
    ctx,            \* per run: the Context keys claim_info and policy_text
    combined_docs,  \* per run: the dict of retrieve_policy_text
    todo,           \* per run: the queries its for loop has yet to take
    stream,         \* per run: the events written to the stream
    consumed,       \* per run: how many of them stream_workflow has printed
    error,          \* per run: Optional exception that ended the run
    result,         \* per run: Optional result of the StopEvent
    returned,       \* per run: Optional outcome handed to the caller
    trace,          \* per run: the "Running step"/"produced event" lines
    calls,          \* per run: the external calls made, in order
    answers,        \* per run: what the retrieval calls of the latest
                    \* retrieve_policy_text returned, in order, where kept
    ctx_ops,        \* per run: the ctx.set and ctx.get calls made, in order
    heard           \* per run: what came to the run from outside, the path
                    \* of its caller and the answers of the collaborators,
                    \* where kept

vars == <<status, verbose, inbox, at, frame, ctx, combined_docs, todo, stream,
          consumed, error, result, returned, trace, calls, answers, ctx_ops,
          heard, files>>

Init ==
    /\ status = [r \in Runs |-> "NotStarted"]
    /\ verbose = [r \in Runs |-> FALSE]
    /\ inbox = [r \in Runs |-> [s \in Steps |-> <<>>]]
    /\ at = [r \in Runs |-> [s \in Steps |-> "idle"]]
    /\ frame = [r \in Runs |-> [s \in Steps |-> None]]
    /\ ctx = [r \in Runs |-> [claim_info |-> None, policy_text |-> None]]
    /\ combined_docs = [r \in Runs |-> <<>>]
    /\ todo = [r \in Runs |-> <<>>]
    /\ stream = [r \in Runs |-> <<>>]
    /\ consumed = [r \in Runs |-> 0]
    /\ error = [r \in Runs |-> None]
    /\ result = [r \in Runs |-> None]
    /\ returned = [r \in Runs |-> None]
    /\ trace = [r \in Runs |-> <<>>]
    /\ calls = [r \in Runs |-> <<>>]
    /\ answers = [r \in Runs |-> <<>>]
    /\ ctx_ops = [r \in Runs |-> <<>>]
    /\ heard = [r \in Runs |-> NothingHeard]
    /\ files = FileSystem

(* ------------------------------ plumbing ------------------------------- *)

\* timeout, had the argument been left at the default of Workflow
timeoutDefault == Some(10)

\* AutoInsuranceWorkflow(..., timeout=None): the runs have no time limit
timeout == None

\* run r got a from outside, kept where the family D keeps what is heard
Hear(r, D, field, a) ==
    heard' = [heard EXCEPT ![r][field] =
                IF ~D.hear THEN @
                ELSE IF field = "searches" THEN Append(@, a)
                ELSE Some(a)]

\* if self._verbose: ctx.write_event_to_stream(LogEvent(msg=...))
Log(r, msg) ==
    stream' = [stream EXCEPT ![r] =
                 IF verbose[r] THEN Append(@, LogEvent(msg)) ELSE @]

\* Ready, had a step waited until the stream was read to its end
ReadyWhenDrained(r, s) ==
    /\ status[r] = "Running"
    /\ at[r][s] = "idle"
    /\ inbox[r][s] # <<>>
    /\ consumed[r] = Len(stream[r])

\* a step whose ev parameter has an event waiting is taken up
Ready(r, s) ==
    /\ status[r] = "Running"
    /\ at[r][s] = "idle"
    /\ inbox[r][s] # <<>>

Running(s) == [kind |-> "running", step |-> s]

Produced(s, e) == [kind |-> "produced", step |-> s, event |-> e]

\* Take, had the event stayed on the step's queue
TakeLeavesEvent(boxes, s) == boxes

\* the step's worker takes the event off the step's queue
Take(boxes, s) == [boxes EXCEPT ![s] = Tail(@)]

\* Raise, had the exception been recorded while the run went on
RaiseSwallowed(r, e) ==
    /\ status' = status
    /\ error' = [error EXCEPT ![r] = Some(e)]

\* an exception leaves the step: the run ends with it
Raise(r, e) ==
    /\ status' = [status EXCEPT ![r] = "Failed"]
    /\ error' = [error EXCEPT ![r] = Some(e)]

\* await ctx.get(key) of a key that was never set raises ValueError
CtxHas(r, key) == ctx[r][key] # None

\* CtxGet, had the workflow object kept one Context for all of its runs
CtxGetShared(r, key) ==
    ctx[CHOOSE q \in Runs : ctx[q][key] # None][key][1]

\* await ctx.get(key): the value the Context of the run holds
CtxGet(r, key) == ctx[r][key][1]

\* CtxSet, had the value not been stored
CtxSetDropped(c, key, value) == c

\* await ctx.set(key, value) on the Context c of a run
CtxSet(c, key, value) == [c EXCEPT ![key] = Some(value)]

\* the ctx call that step s of run r makes
CtxOp(r, s, op, key) ==
    ctx_ops' = [ctx_ops EXCEPT ![r] = Append(@, [op |-> op, key |-> key, step |-> s])]

(* ------------------------------- actions ------------------------------- *)

\* handler = workflow.run(claim_json_path=...)
run(r, D) ==
    /\ status[r] = "NotStarted"
    /\ \E p \in D.paths, v \in BOOLEAN :
        /\ verbose' = [verbose EXCEPT ![r] = v]
        /\ inbox' = [inbox EXCEPT ![r] = Send(@, StartEvent(p))]
        /\ Hear(r, D, "path", p)
    /\ status' = [status EXCEPT ![r] = "Running"]
    /\ UNCHANGED <<at, frame, ctx, combined_docs, todo, stream, consumed,
                   error, result, returned, trace, calls, answers, ctx_ops,
                   files>>

load_claim_info(r) ==
    LET s == "load_claim_info"
        ev == Head(inbox[r][s])
        parsed == parse_claim(ev.claim_json_path)
    IN
    /\ Ready(r, s)
    /\ Log(r, <<"Loading Claim Info">>)
    /\ calls' = [calls EXCEPT ![r] =
                   Append(@, [op |-> "read", arg |-> ev.claim_json_path])]
    /\ IF parsed.ok
       THEN /\ ctx' = [ctx EXCEPT ![r] = CtxSet(@, "claim_info", parsed.value)]
            /\ CtxOp(r, s, "set", "claim_info")
            /\ inbox' = [inbox EXCEPT ![r] =
                           Send(Take(@, s),
                                ClaimInfoEvent(parsed.value))]
            /\ trace' = [trace EXCEPT ![r] =
                           @ \o <<Running(s), Produced(s, ClaimInfoEvent(parsed.value))>>]
            /\ UNCHANGED <<status, error>>
       ELSE /\ Raise(r, parsed.error)
            /\ inbox' = [inbox EXCEPT ![r] = Take(@, s)]
            /\ trace' = [trace EXCEPT ![r] = Append(@, Running(s))]
            /\ UNCHANGED <<ctx, ctx_ops>>
    /\ files' = OpenRead(files, ev.claim_json_path)
    /\ UNCHANGED <<verbose, at, frame, combined_docs, todo, consumed, result,
                   returned, answers, heard>>

generate_policy_queries(r) ==
    LET s == "generate_policy_queries"
        ev == Head(inbox[r][s])
    IN
    /\ Ready(r, s)
    /\ Log(r, <<"Generating Policy Queries">>)
    /\ inbox' = [inbox EXCEPT ![r] = Take(@, s)]
    /\ frame' = [frame EXCEPT ![r][s] = Some([ev |-> ev])]
    /\ at' = [at EXCEPT ![r][s] = "llm"]
    /\ calls' = [calls EXCEPT ![r] =
                   Append(@, [op |-> "llm", shape |-> "PolicyQueries",
                              claim_info |-> ev.claim_info])]
    /\ trace' = [trace EXCEPT ![r] = Append(@, Running(s))]
    /\ UNCHANGED <<status, verbose, ctx, combined_docs, todo, consumed, error,
                   result, returned, answers, ctx_ops, heard, files>>

\* await self.llm.astructured_predict(PolicyQueries, ...) returns or raises
policy_queries_returned(r, D) ==
    LET s == "generate_policy_queries" IN
    /\ status[r] = "Running"
    /\ at[r][s] = "llm"
    /\ at' = [at EXCEPT ![r][s] = "idle"]
    /\ frame' = [frame EXCEPT ![r][s] = None]
    /\ \/ \E queries \in D.queries :
            /\ inbox' = [inbox EXCEPT ![r] = Send(@, PolicyQueryEvent(queries))]
            /\ trace' = [trace EXCEPT ![r] =
                           Append(@, Produced(s, PolicyQueryEvent(queries)))]
            /\ Hear(r, D, "queries", Answer(queries))
            /\ UNCHANGED <<status, error>>
       \/ \E e \in D.llm_errors :
            /\ Raise(r, e)
            /\ Hear(r, D, "queries", Failure(e))
            /\ UNCHANGED <<inbox, trace>>
    /\ UNCHANGED <<verbose, ctx, combined_docs, todo, stream, consumed, result,
                   returned, calls, answers, ctx_ops, files>>

retrieve_policy_text(r) ==
    LET s == "retrieve_policy_text"
        ev == Head(inbox[r][s])
    IN
    /\ Ready(r, s)
    /\ Log(r, <<"Retrieving policy sections">>)
    /\ inbox' = [inbox EXCEPT ![r] = Take(@, s)]
    /\ trace' = [trace EXCEPT ![r] = Append(@, Running(s))]
    /\ answers' = [answers EXCEPT ![r] = <<>>]
    /\ CtxOp(r, s, "get", "claim_info")
    /\ IF CtxHas(r, "claim_info")
       THEN /\ frame' = [frame EXCEPT ![r][s] =
                           Some([ev |-> ev, claim_info |-> CtxGet(r, "claim_info")])]
            /\ combined_docs' = [combined_docs EXCEPT ![r] = <<>>]
            /\ todo' = [todo EXCEPT ![r] = ev.queries.queries]
            /\ at' = [at EXCEPT ![r][s] = "loop"]
            /\ UNCHANGED <<status, error>>
       ELSE /\ Raise(r, "ValueError")
            /\ UNCHANGED <<frame, combined_docs, todo, at>>
    /\ UNCHANGED <<verbose, ctx, consumed, result, returned, calls, heard,
                   files>>

\* retrieve_query, had each turn searched for the last of the queries left
retrieve_query_last(r) ==
    LET s == "retrieve_policy_text" IN
    /\ status[r] = "Running"
    /\ at[r][s] = "loop"
    /\ todo[r] # <<>>
    /\ Log(r, <<"Query", todo[r][Len(todo[r])]>>)
    /\ calls' = [calls EXCEPT ![r] =
                   Append(@, [op |-> "aretrieve", arg |-> todo[r][Len(todo[r])]])]
    /\ at' = [at EXCEPT ![r][s] = "retriever"]
    /\ UNCHANGED <<status, verbose, inbox, frame, ctx, combined_docs, todo,
                   consumed, error, result, returned, trace, answers, ctx_ops,
                   heard, files>>

\* one turn of "for query in ev.queries.queries", up to its await
retrieve_query(r) ==
    LET s == "retrieve_policy_text" IN
    /\ status[r] = "Running"
    /\ at[r][s] = "loop"
    /\ todo[r] # <<>>
    /\ Log(r, <<"Query", Head(todo[r])>>)
    /\ calls' = [calls EXCEPT ![r] =
                   Append(@, [op |-> "aretrieve", arg |-> Head(todo[r])])]
    /\ at' = [at EXCEPT ![r][s] = "retriever"]
    /\ UNCHANGED <<status, verbose, inbox, frame, ctx, combined_docs, todo,
                   consumed, error, result, returned, trace, answers, ctx_ops,
                   heard, files>>

\* await self.policy_retriever.aretrieve(query) returns or raises
retrieve_returned(r, D) ==
    LET s == "retrieve_policy_text" IN
    /\ status[r] = "Running"
    /\ at[r][s] = "retriever"
    /\ \/ \E docs \in D.results :
            /\ combined_docs' = [combined_docs EXCEPT ![r] = MergeDocs(@, docs)]
            /\ answers' = [answers EXCEPT ![r] =
                             IF D.keep
                             THEN Append(@, [op |-> "aretrieve", docs |-> docs])
                             ELSE @]
            /\ todo' = [todo EXCEPT ![r] = Tail(@)]
            /\ at' = [at EXCEPT ![r][s] = "loop"]
            /\ Hear(r, D, "searches", Answer(docs))
            /\ UNCHANGED <<status, error>>
       \/ \E e \in D.retriever_errors :
            /\ Raise(r, e)
            /\ Hear(r, D, "searches", Failure(e))
            /\ UNCHANGED <<combined_docs, answers, todo, at>>
    /\ UNCHANGED <<verbose, inbox, frame, ctx, stream, consumed, result,
                   returned, trace, calls, ctx_ops, files>>

\* after the loop: the declarations page, the join, ctx.set and the return
retrieve_declarations(r, D) ==
    LET s == "retrieve_policy_text"
        claim_info == frame[r][s][1].claim_info
    IN
    /\ status[r] = "Running"
    /\ at[r][s] = "loop"
    /\ todo[r] = <<>>
    /\ calls' = [calls EXCEPT ![r] =
                   Append(@, [op |-> "declarations",
                              arg |-> claim_info.policy_number])]
    /\ \/ \E docs \in D.declarations[claim_info.policy_number] :
            /\ answers' = [answers EXCEPT ![r] =
                             IF D.keep
                             THEN Append(@, [op |-> "declarations", docs |-> docs])
                             ELSE @]
            /\ Hear(r, D, "declarations", Answer(docs))
            /\ IF ~FirstDoc(docs).ok
               THEN /\ Raise(r, FirstDoc(docs).error)
                    /\ UNCHANGED <<combined_docs, ctx, inbox, trace, at, frame,
                                   ctx_ops>>
               ELSE LET merged == MergeDocs(combined_docs[r], FirstDoc(docs).value)
                        policy_text == PolicyText(merged)
                    IN
                    /\ combined_docs' = [combined_docs EXCEPT ![r] = merged]
                    /\ ctx' = [ctx EXCEPT ![r] = CtxSet(@, "policy_text", policy_text)]
                    /\ CtxOp(r, s, "set", "policy_text")
                    /\ inbox' = [inbox EXCEPT ![r] =
                                   Send(@, PolicyMatchedEvent(policy_text))]
                    /\ trace' = [trace EXCEPT ![r] =
                                   Append(@, Produced(s, PolicyMatchedEvent(policy_text)))]
                    /\ at' = [at EXCEPT ![r][s] = "idle"]
                    /\ frame' = [frame EXCEPT ![r][s] = None]
                    /\ UNCHANGED <<status, error>>
       \/ \E e \in D.retriever_errors :
            /\ Raise(r, e)
            /\ Hear(r, D, "declarations", Failure(e))
            /\ UNCHANGED <<answers, combined_docs, ctx, inbox, trace, at, frame,
                           ctx_ops>>
    /\ UNCHANGED <<verbose, todo, stream, consumed, result, returned, files>>

generate_recommendation(r) ==
    LET s == "generate_recommendation"
        ev == Head(inbox[r][s])
    IN
    /\ Ready(r, s)
    /\ Log(r, <<"Generating Policy Recommendation">>)
    /\ inbox' = [inbox EXCEPT ![r] = Take(@, s)]
    /\ trace' = [trace EXCEPT ![r] = Append(@, Running(s))]
    /\ combined_docs' = [combined_docs EXCEPT ![r] = <<>>]
    /\ answers' = [answers EXCEPT ![r] = <<>>]
    /\ CtxOp(r, s, "get", "claim_info")
    /\ IF CtxHas(r, "claim_info")
       THEN /\ frame' = [frame EXCEPT ![r][s] =
                           Some([ev |-> ev, claim_info |-> CtxGet(r, "claim_info")])]
            /\ calls' = [calls EXCEPT ![r] =
                           Append(@, [op |-> "llm",
                                      shape |-> "PolicyRecommendation",
                                      claim_info |-> CtxGet(r, "claim_info"),
                                      policy_text |-> ev.policy_text])]
            /\ at' = [at EXCEPT ![r][s] = "llm"]
            /\ UNCHANGED <<status, error>>
       ELSE /\ Raise(r, "ValueError")
            /\ UNCHANGED <<frame, calls, at>>
    /\ UNCHANGED <<verbose, ctx, todo, consumed, result, returned, heard,
                   files>>

\* await self.llm.astructured_predict(PolicyRecommendation, ...) returns or raises
recommendation_returned(r, D) ==
    LET s == "generate_recommendation" IN
    /\ status[r] = "Running"
    /\ at[r][s] = "llm"
    /\ at' = [at EXCEPT ![r][s] = "idle"]
    /\ frame' = [frame EXCEPT ![r][s] = None]
    /\ \/ \E raw \in D.recommendations :
            /\ Hear(r, D, "recommendation", Answer(raw))
            /\ IF PolicyRecommendationValid(raw)
               THEN LET recommendation == PolicyRecommendation(raw) IN
                    /\ Log(r, <<"Recommendation", recommendation>>)
                    /\ inbox' = [inbox EXCEPT ![r] =
                                   Send(@, RecommendationEvent(recommendation))]
                    /\ trace' = [trace EXCEPT ![r] =
                                   Append(@, Produced(s, RecommendationEvent(recommendation)))]
                    /\ UNCHANGED <<status, error>>
               ELSE /\ Raise(r, "ValidationError")
                    /\ UNCHANGED <<stream, inbox, trace>>
       \/ \E e \in D.llm_errors :
            /\ Raise(r, e)
            /\ Hear(r, D, "recommendation", Failure(e))
            /\ UNCHANGED <<stream, inbox, trace>>
    /\ UNCHANGED <<verbose, ctx, combined_docs, todo, consumed, result,
                   returned, calls, answers, ctx_ops, files>>

finalize_decision(r) ==
    LET s == "finalize_decision"
        ev == Head(inbox[r][s])
    IN
    /\ Ready(r, s)
    /\ Log(r, <<"Finalizing Decision">>)
    /\ CtxOp(r, s, "get", "claim_info")
    /\ IF CtxHas(r, "claim_info")
       THEN LET decision == ClaimDecision(verbose[r], CtxGet(r, "claim_info"),
                                          ev.recommendation, stream[r])
            IN
            /\ inbox' = [inbox EXCEPT ![r] =
                           Send(Take(@, s), DecisionEvent(decision))]
            /\ trace' = [trace EXCEPT ![r] =
                           @ \o <<Running(s), Produced(s, DecisionEvent(decision))>>]
            /\ UNCHANGED <<status, error>>
       ELSE /\ Raise(r, "ValueError")
            /\ inbox' = [inbox EXCEPT ![r] = Take(@, s)]
            /\ trace' = [trace EXCEPT ![r] = Append(@, Running(s))]
    /\ UNCHANGED <<verbose, at, frame, ctx, combined_docs, todo, consumed,
                   result, returned, calls, answers, heard, files>>

output_result(r) ==
    LET s == "output_result"
        ev == Head(inbox[r][s])
    IN
    /\ Ready(r, s)
    /\ Log(r, <<"Decision", ev.decision>>)
    /\ inbox' = [inbox EXCEPT ![r] = Take(@, s)]
    /\ trace' = [trace EXCEPT ![r] =
                   @ \o <<Running(s),
                          Produced(s, StopEvent([decision |-> ev.decision]))>>]
    /\ result' = [result EXCEPT ![r] =
                    Some(StopEvent([decision |-> ev.decision]).result)]
    /\ status' = [status EXCEPT ![r] = "Done"]
    /\ UNCHANGED <<verbose, at, frame, ctx, combined_docs, todo, consumed,
                   error, returned, calls, answers, ctx_ops, heard, files>>

\* one turn of "async for event in handler.stream_events()": print
stream_events(r) ==
    /\ consumed[r] < Len(stream[r])
    /\ consumed' = [consumed EXCEPT ![r] = @ + 1]
    /\ UNCHANGED <<status, verbose, inbox, at, frame, ctx, combined_docs, todo,
                   stream, error, result, returned, trace, calls, answers, ctx_ops,
                   heard, files>>

\* return await handler: the result or the exception of the run, or, in a
\* workflow built with a timeout, the end of a run that is not over in time
await_handler(r) ==
    /\ consumed[r] = Len(stream[r])
    /\ returned[r] = None
    /\ IF status[r] \in {"Done", "Failed"}
       THEN /\ returned' = [returned EXCEPT ![r] =
                              IF status[r] = "Done"
                              THEN Some([raised |-> FALSE, value |-> result[r][1]])
                              ELSE Some([raised |-> TRUE, error |-> error[r][1]])]
            /\ UNCHANGED <<status, error>>
       ELSE /\ status[r] = "Running"
            /\ timeout # None
            /\ Raise(r, "WorkflowTimeoutError")
            /\ returned' = [returned EXCEPT ![r] =
                              Some([raised |-> TRUE, error |-> "WorkflowTimeoutError"])]
    /\ UNCHANGED <<verbose, inbox, at, frame, ctx, combined_docs, todo,
                   stream, consumed, result, trace, calls, answers,
                   ctx_ops, heard, files>>

(* ---------------------------- specifications --------------------------- *)

Step(r, D) ==
    \/ run(r, D)
    \/ load_claim_info(r)
    \/ generate_policy_queries(r)
    \/ policy_queries_returned(r, D)
    \/ retrieve_policy_text(r)
    \/ retrieve_query(r)
    \/ retrieve_returned(r, D)
    \/ retrieve_declarations(r, D)
    \/ generate_recommendation(r)
    \/ recommendation_returned(r, D)
    \/ finalize_decision(r)
    \/ output_result(r)
    \/ stream_events(r)
    \/ await_handler(r)

\* one run, every answer of the collaborators
Next == Step(1, Full)

Spec == Init /\ [][Next]_vars

\* two runs interleaved, a small family of answers
NextRuns == \E r \in Runs : Step(r, Small)

SpecRuns == Init /\ [][NextRuns]_vars

\* one run up to the end of retrieve_policy_text, every retrieval answer kept
NextRetrieve ==
    \/ run(1, Audit)
    \/ load_claim_info(1)
    \/ generate_policy_queries(1)
    \/ policy_queries_returned(1, Audit)
    \/ retrieve_policy_text(1)
    \/ retrieve_query(1)
    \/ retrieve_returned(1, Audit)
    \/ retrieve_declarations(1, Audit)

SpecRetrieve == Init /\ [][NextRetrieve]_vars

\* one run through every step, the answers of the collaborators kept
NextAudit == Step(1, Audit)

SpecAudit == Init /\ [][NextAudit]_vars

\* one run, a small family of answers
NextOne == Step(1, Small)

\* the event loop takes up every step that can go on; whether an awaited
\* call or the declarations lookup ever answers is up to the collaborator
Scheduled(r) ==
    /\ WF_vars(load_claim_info(r))
    /\ WF_vars(generate_policy_queries(r))
    /\ WF_vars(retrieve_policy_text(r))
    /\ WF_vars(retrieve_query(r))
    /\ WF_vars(generate_recommendation(r))
    /\ WF_vars(finalize_decision(r))
    /\ WF_vars(output_result(r))
    /\ WF_vars(stream_events(r))
    /\ WF_vars(await_handler(r))

SpecScheduled == Init /\ [][NextOne]_vars /\ Scheduled(1)

\* every call that run r awaits is answered in the end, with a value or
\* with an error
Answered(r, D) ==
    /\ WF_vars(policy_queries_returned(r, D))
    /\ WF_vars(retrieve_returned(r, D))
    /\ WF_vars(retrieve_declarations(r, D))
    /\ WF_vars(recommendation_returned(r, D))

\* one run whose collaborators answer every call
NextAnswered == Step(1, Several)

SpecAnswered ==
    Init /\ [][NextAnswered]_vars /\ Scheduled(1) /\ Answered(1, Several)

\* one run, the llm answering the recommendation with any of its fields
\* left out
NextPartial == Step(1, Partial)

SpecPartial == Init /\ [][NextPartial]_vars /\ Scheduled(1)

(* ------------------------ reading the history ------------------------- *)

\* step s of run r has returned an event
Has(r, s) ==
    \E i \in 1..Len(trace[r]) :
        trace[r][i].kind = "produced" /\ trace[r][i].step = s

\* the event that step s of run r returned
EventOf(r, s) ==
    trace[r][CHOOSE i \in 1..Len(trace[r]) :
                trace[r][i].kind = "produced" /\ trace[r][i].step = s].event

\* how often step s of run r has returned an event
TimesProduced(r, s) ==
    Cardinality({i \in 1..Len(trace[r]) :
                    trace[r][i].kind = "produced" /\ trace[r][i].step = s})

\* the messages that run r wrote to the stream
Messages(r) == {stream[r][i].msg[1] : i \in 1..Len(stream[r])}

(* ------------------------------- claims -------------------------------- *)

ClaimedSteps == <<"load_claim_info", "generate_policy_queries",
                  "retrieve_policy_text", "generate_recommendation",
                  "finalize_decision", "output_result">>

ClaimedEvents == <<"ClaimInfoEvent", "PolicyQueryEvent", "PolicyMatchedEvent",
                   "RecommendationEvent", "DecisionEvent", "StopEvent">>

Suspended(r) == {s \in Steps : at[r][s] # "idle"}

Queued(r) == {s \in Steps : inbox[r][s] # <<>>}

\* C1: the steps of a run start and complete only in the order
\* load_claim_info, generate_policy_queries, retrieve_policy_text,
\* generate_recommendation, finalize_decision, output_result, each started
\* by the event of the one before it; none is skipped or repeated, at most
\* one step of a run is in progress, and an event waits only while no step
\* is in progress and only for the step that comes next.
C1_StepsInOrder ==
    \A r \in Runs :
        /\ Len(trace[r]) <= 2 * Len(ClaimedSteps)
        /\ \A i \in 1..Len(trace[r]) :
            /\ trace[r][i].step = ClaimedSteps[(i + 1) \div 2]
            /\ IF i % 2 = 1
               THEN trace[r][i].kind = "running"
               ELSE /\ trace[r][i].kind = "produced"
                    /\ trace[r][i].event.type = ClaimedEvents[i \div 2]
        /\ Cardinality(Suspended(r)) <= 1
        /\ \A s \in Suspended(r) :
            /\ trace[r] # <<>>
            /\ trace[r][Len(trace[r])] = [kind |-> "running", step |-> s]
            /\ Queued(r) = {}
        /\ \A s \in Queued(r) :
            /\ Queued(r) = {s}
            /\ Len(inbox[r][s]) = 1
            /\ Len(trace[r]) % 2 = 0
            /\ s = ClaimedSteps[Len(trace[r]) \div 2 + 1]

\* a run went through all six steps
C1_Witness ==
    /\ status[1] = "Done"
    /\ Len(trace[1]) = 12
    /\ trace[1][12].event.type = "StopEvent"

\* what of run r a step could change
RunState(r) == <<status[r], error[r], result[r], trace[r], calls[r], ctx[r],
                 inbox[r], at[r], stream[r], combined_docs[r], todo[r],
                 ctx_ops[r]>>

C2_FailedState ==
    \A r \in Runs :
        /\ error[r] # None <=> status[r] = "Failed"
        /\ status[r] = "Failed" =>
            /\ result[r] = None
            /\ trace[r] # <<>>
            /\ trace[r][Len(trace[r])].kind = "running"
            /\ Len(trace[r]) = 1 =>
                 error[r][1] = parse_claim(calls[r][1].arg).error
        /\ (returned[r] # None /\ status[r] = "Failed") =>
            /\ returned[r][1].raised
            /\ returned[r][1].error = error[r][1]

C2_FailedStays ==
    \A r \in Runs :
        status[r] = "Failed" => RunState(r)' = RunState(r)

\* C2: a step that raises ends the run in Failed with the error it raised:
\* the failing step returned no event, the caller gets that same error, and
\* from then on the run takes no step, makes no external call and stays
\* Failed with the same error.
C2_FailureIsTerminal == [](C2_FailedState) /\ [][C2_FailedStays]_vars

\* a run failed in a step after the first and its caller got the error
C2_Witness ==
    /\ status[1] = "Failed"
    /\ Len(trace[1]) > 1
    /\ returned[1] # None
    /\ returned[1][1].error = "IndexError"

DecisionFields == {"claim_number", "covered", "deductible",
                   "recommended_payout", "notes"}

\* C3: the caller gets a Decision exactly when the run is Done, which is
\* exactly when all six steps returned their event; a Failed run has built
\* no Decision, written none to the stream and hands none to its caller; a
\* Done run carries the one Decision finalize_decision built, every field set.
C3_DecisionIffDone ==
    \A r \in Runs :
        /\ status[r] = "Done" <=> \A s \in Steps : Has(r, s)
        /\ status[r] = "Done" <=> result[r] # None
        /\ returned[r] # None =>
             (~returned[r][1].raised <=> status[r] = "Done")
        /\ status[r] = "Failed" =>
            /\ ~Has(r, "finalize_decision")
            /\ "Decision" \notin Messages(r)
        /\ status[r] = "Done" =>
            LET d == result[r][1].decision IN
            /\ TimesProduced(r, "finalize_decision") = 1
            /\ d = EventOf(r, "finalize_decision").decision
            /\ DOMAIN d = DecisionFields
            /\ d.claim_number \in {"CLAIM-0001", "CLAIM-0002"}
            /\ d.covered \in BOOLEAN
            /\ d.deductible \in Int
            /\ d.recommended_payout \in Int
            /\ d.notes # None
            /\ returned[r] # None => returned[r][1].value = result[r][1]

\* a run returned its Decision to the caller
C3_Witness ==
    /\ status[1] = "Done"
    /\ returned[1] # None
    /\ ~returned[1][1].raised
    /\ returned[1][1].value.decision.claim_number = "CLAIM-0001"

\* the Recommendation and the Decision of a run that has finalized
RecOf(r) == EventOf(r, "generate_recommendation").recommendation

DecisionOf(r) == EventOf(r, "finalize_decision").decision

ClaimOf(r) == EventOf(r, "load_claim_info").claim_info

Finalized(r) == Has(r, "finalize_decision")

CoveredUpper == <<"C","O","V","E","R","E","D">>

\* the summary holds the word "covered" in any mix of cases
MentionsCovered(summary) ==
    \E i \in 0..(Len(summary) - 7) :
        \A j \in 1..7 : summary[i + j] \in {Covered[j], CoveredUpper[j]}

\* C4: covered is true exactly when the lowercased summary contains
\* "covered" or the settlement amount is present and greater than zero.
C4_Covered ==
    \A r \in Runs :
        Finalized(r) =>
            LET amount == RecOf(r).settlement_amount IN
            DecisionOf(r).covered <=>
                \/ MentionsCovered(RecOf(r).recommendation_summary)
                \/ (amount # None /\ amount[1] > 0)

\* no "covered" in the summary and a settlement amount of 0: not covered
C4_Witness ==
    /\ Finalized(1)
    /\ RecOf(1).recommendation_summary = <<"c","o","v","e","r","a","g","e">>
    /\ RecOf(1).settlement_amount = Some(0)
    /\ DecisionOf(1).covered = FALSE

\* C5: the recommended payout is the settlement amount when that is
\* present and not 0, and 0 when it is absent or 0.
C5_Payout ==
    \A r \in Runs :
        Finalized(r) =>
            LET amount == RecOf(r).settlement_amount IN
            /\ amount \in {None, Some(0)} => DecisionOf(r).recommended_payout = 0
            /\ amount \notin {None, Some(0)} =>
                 DecisionOf(r).recommended_payout = amount[1]

\* the CLAIM-0001 scenario: deductible 500, settlement 1000
C5_Witness ==
    /\ Finalized(1)
    /\ ClaimOf(1).claim_number = "CLAIM-0001"
    /\ RecOf(1).deductible = Some(500)
    /\ RecOf(1).settlement_amount = Some(1000)
    /\ DecisionOf(1).recommended_payout = 1000
    /\ DecisionOf(1).covered

\* C6: the deductible is the recommendation's deductible when that is
\* present, 0 included, and 0 when it is absent.
C6_Deductible ==
    \A r \in Runs :
        Finalized(r) =>
            LET amount == RecOf(r).deductible IN
            /\ amount = None => DecisionOf(r).deductible = 0
            /\ amount # None => DecisionOf(r).deductible = amount[1]

\* the CLAIM-0002 scenario: repair cost 2200, deductible 500, settlement 1700
C6_Witness ==
    /\ Finalized(1)
    /\ ClaimOf(1).estimated_repair_cost = 2200
    /\ RecOf(1).deductible = Some(500)
    /\ RecOf(1).settlement_amount = Some(1700)
    /\ DecisionOf(1).deductible = 500
    /\ DecisionOf(1).recommended_payout = 1700
    /\ DecisionOf(1).covered

\* C7: the Decision of a Done run carries the claim number of the claim
\* that load_claim_info read from the run's own file, and its notes are the
\* summary of the run's Recommendation.
C7_ClaimIdAndNotes ==
    \A r \in Runs :
        status[r] = "Done" =>
            LET d == result[r][1].decision IN
            /\ d.claim_number = ClaimOf(r).claim_number
            /\ d.claim_number = FileSystem[calls[r][1].arg].data.claim_number.v
            /\ d.notes = Some(RecOf(r).recommendation_summary)

\* a run on alice.json is Done with an upper-case summary as its notes
C7_Witness ==
    /\ status[1] = "Done"
    /\ calls[1][1].arg = "alice.json"
    /\ result[1][1].decision.claim_number = "CLAIM-0002"
    /\ result[1][1].decision.notes =
         Some(<<"N","o","t"," ","C","O","V","E","R","E","D">>)

\* C8: two runs that finalize the same claim and the same Recommendation
\* build equal Decisions, whatever their verbose flags, their retrieved
\* policy texts and their streams.
C8_FinalizerDeterministic ==
    \A r1, r2 \in Runs :
        (/\ Finalized(r1)
         /\ Finalized(r2)
         /\ ClaimOf(r1) = ClaimOf(r2)
         /\ RecOf(r1) = RecOf(r2))
        => DecisionOf(r1) = DecisionOf(r2)

\* two runs with one claim and one Recommendation that differ in verbose,
\* policy text and stream
C8_Witness ==
    /\ Finalized(1)
    /\ Finalized(2)
    /\ ClaimOf(1) = ClaimOf(2)
    /\ RecOf(1) = RecOf(2)
    /\ verbose[1] # verbose[2]
    /\ ctx[1].policy_text # ctx[2].policy_text
    /\ Len(stream[1]) # Len(stream[2])
    /\ DecisionOf(1) = DecisionOf(2)

(* ------------------- reading the retrieval answers --------------------- *)

\* retrieve_policy_text of run r has returned and what its calls answered
\* is still at hand
Retrieved(r) ==
    /\ Has(r, "retrieve_policy_text")
    /\ answers[r] # <<>>
    /\ answers[r][Len(answers[r])].op = "declarations"

\* the RetrievedText of run r
RetrievedText(r) == EventOf(r, "retrieve_policy_text").policy_text

RECURSIVE Flatten(_)
Flatten(lists) ==
    IF lists = <<>> THEN <<>> ELSE Head(lists).docs \o Flatten(Tail(lists))

\* the search results of run r, query after query
SearchDocs(r) ==
    Flatten(SelectSeq(answers[r], LAMBDA a : a.op = "aretrieve"))

\* the declarations page that run r took
DeclarationDoc(r) == answers[r][Len(answers[r])].docs[1]

\* the queries that run r searched for, in the order of the calls
Searched(r) ==
    LET made == SelectSeq(calls[r], LAMBDA c : c.op = "aretrieve")
    IN [i \in 1..Len(made) |-> made[i].arg]

\* how often sub occurs in the blob
Occurrences(sub, blob) ==
    Cardinality({i \in 0..(Len(blob) - Len(sub)) :
                    \A j \in 1..Len(sub) : blob[i + j] = sub[j]})

\* how often the documents stand in docs under the id
TimesReturned(id, docs) ==
    Cardinality({i \in 1..Len(docs) : docs[i].id_ = id})

\* the texts returned under the id
TextsOf(id, docs) ==
    {docs[i].text : i \in {k \in 1..Len(docs) : docs[k].id_ = id}}

RECURSIVE SumOccurrences(_, _)
SumOccurrences(texts, blob) ==
    IF texts = {} THEN 0
    ELSE LET t == CHOOSE x \in texts : TRUE
         IN Occurrences(t, blob) + SumOccurrences(texts \ {t}, blob)

\* C9: a document id that the searches returned twice or more, by two
\* queries or by one, contributes its text to RetrievedText exactly once.
C9_MergeDedup ==
    \A r \in Runs :
        Retrieved(r) =>
            LET all == Append(SearchDocs(r), DeclarationDoc(r)) IN
            /\ ctx[r].policy_text = Some(RetrievedText(r))
            /\ \A id \in {d.id_ : d \in Range(SearchDocs(r))} :
                 TimesReturned(id, SearchDocs(r)) >= 2 =>
                    SumOccurrences(TextsOf(id, all), RetrievedText(r)) = 1

\* the first query returned n2 twice and the second returned n2 again
C9_Witness ==
    /\ Retrieved(1)
    /\ Len(answers[1]) = 3
    /\ answers[1][1].docs = <<[id_ |-> "n2", text |-> <<"Deductible", BlankLine, "Waiver">>],
                              [id_ |-> "n2", text |-> <<"Deductible", BlankLine, "Waiver">>]>>
    /\ TimesReturned("n1", answers[1][2].docs) = 1
    /\ TimesReturned("n1", SearchDocs(1)) = 1
    /\ TimesReturned("n2", SearchDocs(1)) = 3
    /\ Occurrences(<<"Deductible", BlankLine, "Waiver">>, RetrievedText(1)) = 1

\* the ids of docs, each once, in the order of their first appearance
RECURSIVE FirstSeen(_, _)
FirstSeen(docs, seen) ==
    IF docs = <<>> THEN <<>>
    ELSE IF Head(docs).id_ \in seen THEN FirstSeen(Tail(docs), seen)
    ELSE <<Head(docs).id_>> \o FirstSeen(Tail(docs), seen \cup {Head(docs).id_})

\* the text of the last document of docs with the id
LastText(docs, id) ==
    docs[CHOOSE i \in 1..Len(docs) :
            /\ docs[i].id_ = id
            /\ \A j \in (i + 1)..Len(docs) : docs[j].id_ # id].text

\* the searches of run r were those of its query set, in its order
SearchedInOrder(r) ==
    Searched(r) = EventOf(r, "generate_policy_queries").queries.queries

\* C10 as claimed: RetrievedText is the unique search texts in first-seen
\* order followed by the declarations page as the last element, joined by
\* blank lines.
C10_DeclarationLast ==
    \A r \in Runs :
        Retrieved(r) =>
            LET decl == DeclarationDoc(r)
                others == SelectSeq(SearchDocs(r), LAMBDA d : d.id_ # decl.id_)
                ids == FirstSeen(others, {})
                texts == [k \in 1..Len(ids) |-> LastText(others, ids[k])]
            IN
            /\ SearchedInOrder(r)
            /\ RetrievedText(r) = Join(Append(texts, decl.text), BlankLine)

\* C10 amended: RetrievedText is one text per document id, the ids in the
\* order in which the searches (in query set order) and then the
\* declarations lookup first returned them, each id with the text of the
\* document last returned under it, joined by blank lines; the declarations
\* page is last only if no search returned its id.
C10_FirstSeenOrder ==
    \A r \in Runs :
        Retrieved(r) =>
            LET all == Append(SearchDocs(r), DeclarationDoc(r))
                ids == FirstSeen(all, {})
                texts == [k \in 1..Len(ids) |-> LastText(all, ids[k])]
            IN
            /\ SearchedInOrder(r)
            /\ RetrievedText(r) = Join(texts, BlankLine)
            /\ TimesReturned(DeclarationDoc(r).id_, SearchDocs(r)) = 0 =>
                 texts[Len(texts)] = DeclarationDoc(r).text

\* the searches returned n1 and then n2, and the declarations page has the
\* id n1: its text stands first, not last
C10_Witness ==
    /\ Retrieved(1)
    /\ FirstSeen(SearchDocs(1), {}) = <<"n1", "n2">>
    /\ DeclarationDoc(1).id_ = "n1"
    /\ RetrievedText(1) = <<"Declarations John (copy)", BlankLine,
                            "Deductible", BlankLine, "Waiver">>

(* ------------------------- failures of the steps ----------------------- *)

\* the latest answer that run r has at hand
LastAnswer(r) == answers[r][Len(answers[r])]

\* the declarations lookup of run r answered with no result
NoDeclarations(r) ==
    /\ answers[r] # <<>>
    /\ LastAnswer(r).op = "declarations"
    /\ LastAnswer(r).docs = <<>>

\* the calls of run r to the reasoning collaborator for the shape
LlmCalls(r, shape) ==
    SelectSeq(calls[r], LAMBDA c : c.op = "llm" /\ c.shape = shape)

\* the errors with which a run may end for other reasons than an absent
\* declarations page
OtherErrors ==
    LlmErrors \cup RetrieverErrors \cup
    {"FileNotFoundError", "JSONDecodeError", "ValidationError", "ValueError"}

\* the error of an absent declarations page: what the subscript of the
\* empty result list raises
DeclarationNotFound == "IndexError"

\* C11: a declarations lookup that returns no result fails the run in
\* retrieve_policy_text with the error of the absent page, an error no
\* other failure of a run carries; the step returns no event and sets no
\* policy_text, the reasoning collaborator is not called for a
\* recommendation, and there is neither a Recommendation nor a Decision.
C11_DeclarationAbsent ==
    \A r \in Runs :
        /\ NoDeclarations(r) =>
            /\ status[r] = "Failed"
            /\ error[r] = Some(DeclarationNotFound)
            /\ trace[r][Len(trace[r])] = Running("retrieve_policy_text")
            /\ ctx[r].policy_text = None
            /\ LlmCalls(r, "PolicyRecommendation") = <<>>
            /\ ~Has(r, "retrieve_policy_text")
            /\ ~Has(r, "generate_recommendation")
            /\ ~Has(r, "finalize_decision")
            /\ result[r] = None
            /\ returned[r] # None => returned[r][1].raised
        /\ error[r] = Some(DeclarationNotFound) => NoDeclarations(r)
        /\ DeclarationNotFound \notin OtherErrors

\* after two searches the lookup for POLICY-ABC123 found nothing, and the
\* caller got the error
C11_Witness ==
    /\ NoDeclarations(1)
    /\ Len(answers[1]) = 3
    /\ calls[1][Len(calls[1])] = [op |-> "declarations", arg |-> "POLICY-ABC123"]
    /\ status[1] = "Failed"
    /\ returned[1] = Some([raised |-> TRUE, error |-> "IndexError"])

\* the declarations lookup of run r answered with more than one result
ManyDeclarations(r) ==
    /\ answers[r] # <<>>
    /\ LastAnswer(r).op = "declarations"
    /\ Len(LastAnswer(r).docs) > 1

\* C12 as claimed: a declarations lookup that returns more than one result
\* fails the run before retrieve_policy_text returns its event.
C12_ExactlyOneDeclaration ==
    \A r \in Runs :
        ManyDeclarations(r) =>
            /\ status[r] = "Failed"
            /\ ~Has(r, "retrieve_policy_text")
            /\ ctx[r].policy_text = None

\* C12 amended: of a declarations lookup that returns more than one result
\* the first result is taken as the declarations page and the run goes on:
\* retrieve_policy_text returns the text it would have returned had the
\* lookup answered with that first result alone, sets it as policy_text
\* and queues it for generate_recommendation; the step fails on the lookup
\* only when there is no result or the lookup raises.
C12_FirstDeclarationTaken ==
    \A r \in Runs :
        /\ ManyDeclarations(r) =>
            LET first == LastAnswer(r).docs[1]
                all == Append(SearchDocs(r), first)
                ids == FirstSeen(all, {})
                texts == [k \in 1..Len(ids) |-> LastText(all, ids[k])]
            IN
            /\ status[r] = "Running"
            /\ error[r] = None
            /\ Has(r, "retrieve_policy_text")
            /\ RetrievedText(r) = Join(texts, BlankLine)
            /\ Occurrences(first.text, RetrievedText(r)) >= 1
            /\ ctx[r].policy_text = Some(RetrievedText(r))
            /\ inbox[r]["generate_recommendation"] =
                 <<PolicyMatchedEvent(RetrievedText(r))>>
        /\ (/\ status[r] = "Failed"
            /\ LlmCalls(r, "PolicyQueries") # <<>>
            /\ calls[r][Len(calls[r])].op = "declarations")
           => \/ NoDeclarations(r)
              \/ error[r][1] \in RetrieverErrors

\* the lookup for POLICY-ABC123 returned two pages after a search that
\* found n1: the run goes on with the first page, the second is not in
\* the text
C12_Witness ==
    /\ ManyDeclarations(1)
    /\ LastAnswer(1).docs = <<[id_ |-> "dj", text |-> <<"Declarations John">>],
                              [id_ |-> "n1", text |-> <<"Declarations John (copy)">>]>>
    /\ status[1] = "Running"
    /\ RetrievedText(1) = <<"Collision Coverage", BlankLine, "Declarations John">>
    /\ inbox[1]["generate_recommendation"] # <<>>

(* ------------------------------ the Context ---------------------------- *)

ContextKeys == {"claim_info", "policy_text"}

\* the step that the claim names as the writer of the key
ClaimedWriter(key) ==
    IF key = "claim_info" THEN "load_claim_info" ELSE "retrieve_policy_text"

\* the ctx.set calls of run r for the key
Sets(r, key) ==
    SelectSeq(ctx_ops[r], LAMBDA o : o.op = "set" /\ o.key = key)

C13_SetOnceState ==
    \A r \in Runs :
        /\ \A i \in 1..Len(ctx_ops[r]) : ctx_ops[r][i].key \in ContextKeys
        /\ \A key \in ContextKeys :
            /\ Len(Sets(r, key)) <= 1
            /\ ctx[r][key] # None <=> Len(Sets(r, key)) = 1
            /\ \A i \in 1..Len(Sets(r, key)) :
                 Sets(r, key)[i].step = ClaimedWriter(key)
        /\ ctx[r].claim_info # None => ctx[r].claim_info = Some(ClaimOf(r))
        /\ ctx[r].policy_text # None =>
             ctx[r].policy_text = Some(RetrievedText(r))

C13_SetOnceStep ==
    \A r \in Runs : \A key \in ContextKeys :
        /\ ctx[r][key] # None => ctx'[r][key] = ctx[r][key]
        /\ Len(Sets(r, key))' > Len(Sets(r, key)) =>
             /\ ctx[r][key] = None
             /\ ctx'[r][key] # None

\* C13: in one run each key of the Context is set at most once:
\* "claim_info" by load_claim_info only and "policy_text" by
\* retrieve_policy_text only, a key is set only while it has no value, and
\* a key that has a value keeps it in every later step of the run.
C13_KeysSetOnce == [](C13_SetOnceState) /\ [][C13_SetOnceStep]_vars

\* a Done run: both keys set once, claim_info read by the three later steps
C13_Witness ==
    /\ status[1] = "Done"
    /\ ctx[1].claim_info # None
    /\ ctx[1].policy_text # None
    /\ ctx_ops[1] =
         <<[op |-> "set", key |-> "claim_info", step |-> "load_claim_info"],
           [op |-> "get", key |-> "claim_info", step |-> "retrieve_policy_text"],
           [op |-> "set", key |-> "policy_text", step |-> "retrieve_policy_text"],
           [op |-> "get", key |-> "claim_info", step |-> "generate_recommendation"],
           [op |-> "get", key |-> "claim_info", step |-> "finalize_decision"]>>

(* ------------------------- the entities of a run ----------------------- *)

\* the events that carry ClaimRecord, RetrievalQuerySet, RetrievedText,
\* Recommendation and Decision
EntityEvents == {"ClaimInfoEvent", "PolicyQueryEvent", "PolicyMatchedEvent",
                 "RecommendationEvent", "DecisionEvent"}

\* the events of the type that the steps of run r returned
Returned(r, type) ==
    SelectSeq(trace[r], LAMBDA x : x.kind = "produced" /\ x.event.type = type)

\* the events of the type that wait in a queue of run r
Waiting(r, type) ==
    {<<s, i>> \in Steps \X (1..2) :
        i <= Len(inbox[r][s]) /\ inbox[r][s][i].type = type}

\* C14: in every run each of ClaimRecord, RetrievalQuerySet, RetrievedText,
\* Recommendation and Decision is produced at most once, and only what was
\* produced is passed on; a run that is Done has produced exactly one of
\* each, and the one claim and the one text are what the recommendation was
\* asked for and the one Decision is its result.
C14_OneOfEach ==
    \A r \in Runs :
        /\ \A type \in EntityEvents :
            /\ Len(Returned(r, type)) <= 1
            /\ Cardinality(Waiting(r, type)) <= Len(Returned(r, type))
            /\ \A w \in Waiting(r, type) :
                 inbox[r][w[1]][w[2]] = Returned(r, type)[1].event
            /\ status[r] = "Done" => Len(Returned(r, type)) = 1
        /\ \A s \in Steps : Len(inbox[r][s]) <= 1
        /\ Len(LlmCalls(r, "PolicyRecommendation")) = 1 =>
            LET c == LlmCalls(r, "PolicyRecommendation")[1] IN
            /\ c.claim_info = Returned(r, "ClaimInfoEvent")[1].event.claim_info
            /\ c.policy_text = Returned(r, "PolicyMatchedEvent")[1].event.policy_text
        /\ status[r] = "Done" =>
             result[r][1].decision = Returned(r, "DecisionEvent")[1].event.decision

\* a Done run with one event of each of the five kinds
C14_Witness ==
    /\ status[1] = "Done"
    /\ \A type \in EntityEvents : Len(Returned(1, type)) = 1
    /\ Returned(1, "PolicyQueryEvent")[1].event.queries.queries =
         SubSeq(QueryPool, 1, 2)
    /\ Returned(1, "RecommendationEvent")[1].event.recommendation.deductible = None

(* --------------------------- the progress stream ----------------------- *)

\* everything of run r but its verbose flag, its stream, how much of the
\* stream was read and what its caller got
Flow(r) == <<status[r], error[r], result[r], trace[r], calls[r], ctx[r],
             inbox[r], at[r], frame[r], combined_docs[r], todo[r], ctx_ops[r]>>

\* how far run r has come
Position(r) == <<Len(trace[r]), Len(calls[r]), at[r]>>

\* the variants of a run that the claim names
Unread(r) == verbose[r] /\ stream[r] # <<>> /\ consumed[r] = 0

ReadToEnd(r) == verbose[r] /\ stream[r] # <<>> /\ consumed[r] = Len(stream[r])

Silent(r) == ~verbose[r]

C15_SameFlow ==
    \A r, q \in Runs :
        /\ (heard[r] = heard[q] /\ Position(r) = Position(q)) =>
                Flow(r) = Flow(q)
        /\ (r < q /\ Flow(r) = Flow(q)) =>
            /\ ENABLED load_claim_info(r) <=> ENABLED load_claim_info(q)
            /\ ENABLED generate_policy_queries(r) <=> ENABLED generate_policy_queries(q)
            /\ ENABLED retrieve_policy_text(r) <=> ENABLED retrieve_policy_text(q)
            /\ ENABLED retrieve_query(r) <=> ENABLED retrieve_query(q)
            /\ ENABLED generate_recommendation(r) <=> ENABLED generate_recommendation(q)
            /\ ENABLED finalize_decision(r) <=> ENABLED finalize_decision(q)
            /\ ENABLED output_result(r) <=> ENABLED output_result(q)
        /\ stream[r] # <<>> => verbose[r]
        /\ returned[r] # None =>
            /\ returned[r][1].raised => returned[r][1].error = error[r][1]
            /\ ~returned[r][1].raised => returned[r][1].value = result[r][1]

C15_ReaderLeavesFlow ==
    \A r \in Runs :
        (consumed[r]' # consumed[r] \/ returned[r]' # returned[r]) =>
            /\ Flow(r)' = Flow(r)
            /\ stream[r]' = stream[r]

\* C15: the stream does not affect the flow of a run: two runs that were
\* given the same claim and the same answers and have come equally far are
\* in the same state but for the stream, whether the log events are written
\* and read, written and never read, or not written; in that state the
\* same steps can be taken; reading the stream changes nothing of the run;
\* and the caller gets the Decision or the error the run ended with.
C15_StreamIsOneWay == [](C15_SameFlow) /\ [][C15_ReaderLeavesFlow]_vars

\* the same claim and answers, both Done with one Decision: one run wrote
\* its log events and none was read, the other wrote none
C15_Witness ==
    /\ heard[1] = heard[2]
    /\ status[1] = "Done"
    /\ status[2] = "Done"
    /\ Unread(1)
    /\ Silent(2)
    /\ result[1] = result[2]
    /\ result[1][1].decision.covered

(* ----------------------------- concurrent runs ------------------------- *)

\* the claim in the file that run r was started on
OwnClaim(r) == ClaimInfo(FileSystem[heard[r].path[1]].data)

RECURSIVE FlattenValues(_)
FlattenValues(as) ==
    IF as = <<>> THEN <<>>
    ELSE (IF Head(as).value = None THEN <<>> ELSE Head(as).value[1])
         \o FlattenValues(Tail(as))

\* the text of what run r itself was answered by the searches and by the
\* declarations lookup
OwnText(r) ==
    LET all == Append(FlattenValues(heard[r].searches),
                      heard[r].declarations[1].value[1][1])
        ids == FirstSeen(all, {})
    IN Join([k \in 1..Len(ids) |-> LastText(all, ids[k])], BlankLine)

\* the Decision that follows from the claim of run r and the
\* Recommendation that run r itself was answered with
OwnDecision(r) ==
    LET rec == heard[r].recommendation[1].value[1]
        amount == rec.settlement_amount
    IN [claim_number |-> OwnClaim(r).claim_number,
        covered |-> \/ MentionsCovered(rec.recommendation_summary)
                    \/ (amount # None /\ amount[1] > 0),
        deductible |-> IF rec.deductible = None THEN 0 ELSE rec.deductible[1],
        recommended_payout |-> IF amount \in {None, Some(0)} THEN 0 ELSE amount[1],
        notes |-> Some(rec.recommendation_summary)]

\* the errors among what run r itself was answered
OwnErrors(r) ==
    LET h == heard[r]
        one == {h[f][1].error : f \in {x \in {"queries", "declarations", "recommendation"} :
                                        h[x] # None}}
        more == {h.searches[i].error : i \in 1..Len(h.searches)}
    IN {e[1] : e \in (one \cup more) \ {None}}

\* everything of run r
Own(r) == <<Flow(r), verbose[r], stream[r], consumed[r], returned[r],
            answers[r], heard[r]>>

C16_OwnState ==
    \A r \in Runs :
        /\ status[r] = "NotStarted" =>
            /\ ctx[r] = [claim_info |-> None, policy_text |-> None]
            /\ trace[r] = <<>>
            /\ calls[r] = <<>>
            /\ stream[r] = <<>>
            /\ heard[r] = NothingHeard
        /\ status[r] # "NotStarted" =>
            /\ ctx[r].claim_info \in {None, Some(OwnClaim(r))}
            /\ ctx[r].policy_text # None => ctx[r].policy_text = Some(OwnText(r))
            /\ \A s \in Steps :
                 (frame[r][s] # None /\ "claim_info" \in DOMAIN frame[r][s][1]) =>
                    frame[r][s][1].claim_info = OwnClaim(r)
            /\ \A i \in 1..Len(calls[r]) :
                 /\ calls[r][i].op = "llm" => calls[r][i].claim_info = OwnClaim(r)
                 /\ (calls[r][i].op = "llm" /\ calls[r][i].shape = "PolicyRecommendation")
                      => calls[r][i].policy_text = OwnText(r)
                 /\ calls[r][i].op = "declarations" =>
                      calls[r][i].arg = OwnClaim(r).policy_number
            /\ status[r] = "Done" => result[r][1].decision = OwnDecision(r)
            /\ status[r] = "Failed" => error[r][1] \in OwnErrors(r)

C16_OwnStep ==
    \A r, q \in Runs :
        (r # q /\ Own(r)' # Own(r)) => Own(q)' = Own(q)

\* C16: two runs started on the claims of two files and interleaved in any
\* way do not interfere: what a run reads from its Context, hands to the
\* collaborators and holds in a suspended step is its own claim and its
\* own policy text; it ends with the Decision that follows from its own
\* claim and the answers it got itself, or with the error it was answered
\* with; and a step of one run changes nothing of the other.
C16_RunsDoNotInterfere == [](C16_OwnState) /\ [][C16_OwnStep]_vars

\* the run on john.json is Done with the Decision of CLAIM-0001 while the
\* run on alice.json, which has read its own claim, waits for a search
C16_Witness ==
    /\ status[1] = "Done"
    /\ heard[1].path = Some("john.json")
    /\ result[1][1].decision.claim_number = "CLAIM-0001"
    /\ heard[2].path = Some("alice.json")
    /\ at[2]["retrieve_policy_text"] = "retriever"
    /\ frame[2]["retrieve_policy_text"][1].claim_info.claim_number = "CLAIM-0002"

(* ------------------------------ abandoned runs ------------------------- *)

\* the calls that ask a collaborator for something and change nothing of it
Reads == {"read", "llm", "aretrieve", "declarations"}

\* the awaited call at which run r is suspended, if any
Awaited(r) == {at[r][s] : s \in Steps} \cap {"llm", "retriever"}

C17_NothingWritten ==
    /\ files = FileSystem
    /\ \A r \in Runs : \A i \in 1..Len(calls[r]) : calls[r][i].op \in Reads

C17_StepLeavesRest ==
    \A r \in Runs :
        Own(r)' # Own(r) =>
            /\ files' = files
            /\ \A q \in Runs \ {r} : Own(q)' = Own(q)

\* C17: a run that its caller abandons at an awaited call, so that it
\* takes no further step, leaves nothing behind: up to any such point the
\* run has only read the claim file and asked the collaborators, the file
\* system is what it was before the run started, and no step of the run
\* has changed anything of another run.
C17_NoResidue == [](C17_NothingWritten) /\ [][C17_StepLeavesRest]_vars

\* run 1 waits for the recommendation, after the read, the queries, a
\* search and the declarations lookup; run 2 is Done; no file has changed
C17_Witness ==
    /\ Awaited(1) = {"llm"}
    /\ Len(calls[1]) = 5
    /\ calls[1][1].op = "read"
    /\ calls[1][3].op = "aretrieve"
    /\ calls[1][5].shape = "PolicyRecommendation"
    /\ status[2] = "Done"
    /\ files = FileSystem

(* -------------------------------- timeouts ----------------------------- *)

\* the errors of a run that ran out of time
Timeouts == {"WorkflowTimeoutError", "TimeoutError", "Timeout"}

\* run r waits for an answer: at an awaited call, or before the
\* declarations lookup that the step makes without await
Waits(r) ==
    /\ status[r] = "Running"
    /\ \/ Awaited(r) # {}
       \/ at[r]["retrieve_policy_text"] = "loop" /\ todo[r] = <<>>

\* C18 as claimed: a run that waits for an external call does not wait
\* forever: it gets its answer or ends Failed with a timeout error.
C18_CallsTimeOut ==
    \A r \in Runs :
        Waits(r) ~>
            \/ ~Waits(r)
            \/ (status[r] = "Failed" /\ error[r] # None /\ error[r][1] \in Timeouts)

C18_NoTimeoutState ==
    \A r \in Runs :
        /\ error[r] # None => error[r][1] \notin Timeouts
        /\ returned[r] # None =>
            /\ status[r] \in {"Done", "Failed"}
            /\ returned[r][1].raised => returned[r][1].error \notin Timeouts

C18_WaitsForAnswer ==
    \A r \in Runs :
        (Waits(r) /\ Flow(r)' # Flow(r)) => heard[r]' # heard[r]

\* C18 amended: no external call of a run is bounded by a timeout (the
\* workflow is built with timeout=None): a run that waits for an external
\* call goes on only when the call returns or raises, waits as long as
\* the call does not answer, and never ends with a timeout error; its
\* caller gets an outcome only from a run that is Done or Failed.
C18_NoTimeout == [](C18_NoTimeoutState) /\ [][C18_WaitsForAnswer]_vars

\* the run waits for the recommendation and its caller has no outcome
C18_Witness ==
    /\ Waits(1)
    /\ Awaited(1) = {"llm"}
    /\ heard[1].declarations # None
    /\ heard[1].recommendation = None
    /\ returned[1] = None
    /\ error[1] = None

(* ------------------------------ the claim loader ----------------------- *)

\* the errors of the loader: a source that cannot be read, and a record
\* that does not validate
SourceUnavailable == {"FileNotFoundError"}

MalformedClaim == {"ValidationError"}

\* the fields a claim must have and the JSON type of each
RequiredFields ==
    [claim_number |-> "str", policy_number |-> "str", claimant_name |-> "str",
     date_of_loss |-> "str", loss_description |-> "str",
     estimated_repair_cost |-> "num"]

\* a required field is missing from the raw record
FieldMissing(data) == \E f \in DOMAIN RequiredFields : f \notin DOMAIN data

\* a required field of the raw record is not of its type
FieldOfWrongType(data) ==
    \E f \in DOMAIN RequiredFields \cap DOMAIN data : data[f].t # RequiredFields[f]

\* a required field of the raw record is of a type that cannot be
\* converted to its type: only a string of digits converts, to a number
FieldNotConvertible(data) ==
    \E f \in DOMAIN RequiredFields \cap DOMAIN data :
        /\ data[f].t # RequiredFields[f]
        /\ ~(RequiredFields[f] = "num" /\ data[f].t = "str"
             /\ \A i \in 1..Len(data[f].v) :
                  data[f].v[i] \in {"0", "1", "2", "3", "4", "5", "6", "7", "8", "9"})

\* run r has read its claim file
Loaded(r) == calls[r] # <<>>

\* the file that run r read
FileOf(r) == FileSystem[calls[r][1].arg]

\* run r failed in load_claim_info with an error of the kind, nothing
\* written to its Context and no other call made
LoaderFailed(r, kind) ==
    /\ status[r] = "Failed"
    /\ error[r][1] \in kind
    /\ trace[r] = <<Running("load_claim_info")>>
    /\ ctx[r] = [claim_info |-> None, policy_text |-> None]
    /\ ctx_ops[r] = <<>>
    /\ Len(calls[r]) = 1
    /\ \A s \in Steps : inbox[r][s] = <<>>
    /\ files = FileSystem

\* C19 as claimed: a raw record with a required field missing or of the
\* wrong type fails with MalformedClaim.
C19_WrongTypeFails ==
    \A r \in Runs :
        (/\ Loaded(r)
         /\ FileOf(r).kind = "json"
         /\ (FieldMissing(FileOf(r).data) \/ FieldOfWrongType(FileOf(r).data)))
        => LoaderFailed(r, MalformedClaim)

\* C19 amended: the loader produces a validated ClaimRecord or fails
\* before ClaimLoaded: a raw record with a required field missing or of a
\* type that cannot be converted fails with MalformedClaim, a source that
\* is not there fails with SourceUnavailable, the two errors differ, and
\* in both cases nothing is written to the Context and no reasoning or
\* retrieval call is made; a repair cost written as a string of digits is
\* converted to its number and the record is accepted.
C19_LoaderContract ==
    /\ SourceUnavailable \cap MalformedClaim = {}
    /\ \A r \in Runs :
        Loaded(r) =>
            /\ calls[r][1].op = "read"
            /\ FileOf(r).kind = "absent" => LoaderFailed(r, SourceUnavailable)
            /\ FileOf(r).kind = "text" => LoaderFailed(r, {"JSONDecodeError"})
            /\ FileOf(r).kind = "json" =>
                LET data == FileOf(r).data IN
                IF FieldMissing(data) \/ FieldNotConvertible(data)
                THEN LoaderFailed(r, MalformedClaim)
                ELSE /\ Has(r, "load_claim_info")
                     /\ ctx[r].claim_info = Some(ClaimOf(r))
                     /\ \A f \in DOMAIN RequiredFields :
                          RequiredFields[f] = "str" => ClaimOf(r)[f] = data[f].v
                     /\ ClaimOf(r).estimated_repair_cost \in Nat
                     /\ data.estimated_repair_cost.t = "num" =>
                          ClaimOf(r).estimated_repair_cost = data.estimated_repair_cost.v
                     /\ (status[r] = "Failed" /\ error[r][1] \in MalformedClaim) =>
                          Len(trace[r]) > 1

\* the repair cost "1500" of quoted.json was loaded as the number 1500
C19_Witness ==
    /\ Loaded(1)
    /\ calls[1][1].arg = "quoted.json"
    /\ FieldOfWrongType(FileOf(1).data)
    /\ Has(1, "load_claim_info")
    /\ ClaimOf(1).estimated_repair_cost = 1500
    /\ status[1] = "Done"

(* ------------------------------ the synthesis step --------------------- *)

\* the errors with which the llm call of generate_recommendation fails:
\* an error of the llm, or a response that is no PolicyRecommendation
SynthesisFailed == LlmErrors

\* what the llm gave run r for its recommendation
Response(r) == heard[r].recommendation[1]

\* run r failed in generate_recommendation with error e: there is neither a
\* Recommendation nor a Decision
FailedInSynthesis(r, e) ==
    /\ e \in SynthesisFailed
    /\ status[r] = "Failed"
    /\ error[r] = Some(e)
    /\ trace[r][Len(trace[r])] = Running("generate_recommendation")
    /\ ~Has(r, "generate_recommendation")
    /\ ~Has(r, "finalize_decision")
    /\ \A s \in Steps : inbox[r][s] = <<>>
    /\ result[r] = None

\* the value of a field of the response, None when the response lacks it
FieldOr(raw, f) == IF f \in DOMAIN raw THEN raw[f] ELSE None

C20_SynthesisState ==
    \A r \in Runs :
        heard[r].recommendation # None =>
            IF Response(r).error # None
            THEN FailedInSynthesis(r, Response(r).error[1])
            ELSE LET raw == Response(r).value[1] IN
                 IF \E f \in {"policy_section", "recommendation_summary"} :
                        f \notin DOMAIN raw
                 THEN FailedInSynthesis(r, "ValidationError")
                 ELSE /\ status[r] # "Failed"
                      /\ error[r] = None
                      /\ Has(r, "generate_recommendation")
                      /\ RecOf(r).policy_section = raw.policy_section
                      /\ RecOf(r).recommendation_summary = raw.recommendation_summary
                      /\ RecOf(r).deductible = FieldOr(raw, "deductible")
                      /\ RecOf(r).settlement_amount = FieldOr(raw, "settlement_amount")
                      /\ status[r] = "Done" =>
                           /\ result[r] = Some([decision |-> DecisionOf(r)])
                           /\ DecisionOf(r).notes = Some(raw.recommendation_summary)
                           /\ "deductible" \notin DOMAIN raw =>
                                DecisionOf(r).deductible = 0
                           /\ "settlement_amount" \notin DOMAIN raw =>
                                DecisionOf(r).recommended_payout = 0

\* the llm answered run 1 with a response that holds policy_section and
\* recommendation_summary
C20_Accepted ==
    /\ heard[1].recommendation # None
    /\ Response(1).error = None
    /\ {"policy_section", "recommendation_summary"} \subseteq DOMAIN Response(1).value[1]

\* run 1 is Done with a Decision
C20_Decided ==
    /\ status[1] = "Done"
    /\ result[1] # None

\* C20: generate_recommendation fails the run, with the error of the llm
\* call, when the llm raises or answers without policy_section or without
\* recommendation_summary, and then there is no Recommendation and no
\* Decision; it does not fail when only deductible or settlement_amount is
\* absent: the absent field is None in the Recommendation, and the run goes
\* on to Done with a Decision, of deductible 0 and payout 0 when both are
\* absent.
C20_SynthesisFailsOrDecides ==
    [](C20_SynthesisState) /\ (C20_Accepted ~> C20_Decided)

\* the llm answered with policy_section and recommendation_summary only and
\* the run is Done with a Decision
C20_Witness ==
    /\ heard[1].recommendation # None
    /\ Response(1).error = None
    /\ DOMAIN Response(1).value[1] = {"policy_section", "recommendation_summary"}
    /\ status[1] = "Done"
    /\ result[1] = Some([decision |-> DecisionOf(1)])
    /\ DecisionOf(1).deductible = 0
    /\ DecisionOf(1).recommended_payout = 0

(* ------------------------------ an empty query set --------------------- *)

\* the RetrievalQuerySet of run r
QueriesOf(r) == EventOf(r, "generate_policy_queries").queries.queries

\* the query generator gave run r no query
EmptyQueries(r) ==
    /\ Has(r, "generate_policy_queries")
    /\ QueriesOf(r) = <<>>

\* the calls of run r of the kind op
CallsOf(r, op) == SelectSeq(calls[r], LAMBDA c : c.op = op)

\* run r is in retrieve_policy_text, between two calls
InLoop(r) == status[r] = "Running" /\ at[r]["retrieve_policy_text"] = "loop"

\* with no query: no search is made, what retrieve_policy_text waits for
\* is the declarations lookup, the step fails only on that lookup, and its
\* text is the text of the declarations page alone
C21_EmptyState ==
    \A r \in Runs :
        EmptyQueries(r) =>
            /\ CallsOf(r, "aretrieve") = <<>>
            /\ at[r]["retrieve_policy_text"] # "retriever"
            /\ InLoop(r) => todo[r] = <<>> /\ combined_docs[r] = <<>>
            /\ (status[r] = "Failed" /\ ~Has(r, "retrieve_policy_text")) =>
                /\ Len(CallsOf(r, "declarations")) = 1
                /\ calls[r][Len(calls[r])].op = "declarations"
                /\ error[r][1] \in RetrieverErrors \cup {DeclarationNotFound}
                /\ error[r] = Some(DeclarationNotFound) <=> NoDeclarations(r)
            /\ Has(r, "retrieve_policy_text") =>
                /\ CallsOf(r, "declarations") =
                     <<[op |-> "declarations", arg |-> ClaimOf(r).policy_number]>>
                /\ RetrievedText(r) \in
                     {PolicyText(<<d>>) :
                        d \in DeclarationNodes(ClaimOf(r).policy_number)}
                /\ ctx[r].policy_text = Some(RetrievedText(r))
                /\ Retrieved(r) =>
                     /\ LastAnswer(r).docs # <<>>
                     /\ Len(answers[r]) = 1
                     /\ RetrievedText(r) = PolicyText(<<LastAnswer(r).docs[1]>>)

\* with no query, the step that retrieve_policy_text takes after its loop
\* is the declarations lookup for the policy number of the claim
C21_LookupIsNext ==
    \A r \in Runs :
        (EmptyQueries(r) /\ InLoop(r) /\ calls'[r] # calls[r]) =>
            calls'[r] = Append(calls[r], [op |-> "declarations",
                                          arg |-> ClaimOf(r).policy_number])

\* C21: an empty RetrievalQuerySet is accepted: generate_policy_queries
\* returns it, retrieve_policy_text makes no search for it and goes on to
\* the declarations lookup, the step fails only when that lookup raises or
\* finds nothing, and otherwise its RetrievedText is the text of the
\* declarations page alone.
C21_EmptyQueriesAccepted == [](C21_EmptyState) /\ [][C21_LookupIsNext]_vars

\* no query for John's claim, and the text is John's declarations page
C21_Witness ==
    /\ EmptyQueries(1)
    /\ Retrieved(1)
    /\ Len(calls[1]) = 3
    /\ calls[1][1] = [op |-> "read", arg |-> "john.json"]
    /\ calls[1][2].op = "llm"
    /\ calls[1][3] = [op |-> "declarations", arg |-> "POLICY-ABC123"]
    /\ RetrievedText(1) = <<"Declarations John">>

(* ------------------------------ the round trip ------------------------- *)

FieldsOfClaim == {"claim_number", "policy_number", "claimant_name",
                 "date_of_loss", "loss_description", "estimated_repair_cost",
                 "vehicle_details"}

\* what the loader makes of the serialized ClaimInfo: json.load gives the
\* dumped record, model_validate the ClaimInfo or its error
Reloaded(claim_info) ==
    IF ClaimInfoValid(model_dump(claim_info))
    THEN [ok |-> TRUE, value |-> ClaimInfo(model_dump(claim_info))]
    ELSE [ok |-> FALSE, error |-> "ValidationError"]

\* C22: the ClaimInfo that a run loaded, serialized and loaded again, is
\* accepted by the loader and equal to the one loaded in every field,
\* whether its vehicle_details is a text or absent, and whether its repair
\* cost was read from a number or converted from a string.
C22_RoundTrip ==
    \A r \in Runs :
        Has(r, "load_claim_info") =>
            /\ DOMAIN model_dump(ClaimOf(r)) = FieldsOfClaim
            /\ Reloaded(ClaimOf(r)).ok
            /\ \A f \in FieldsOfClaim :
                 Reloaded(ClaimOf(r)).value[f] = ClaimOf(r)[f]
            /\ Reloaded(ClaimOf(r)).value = ClaimOf(r)
            /\ ctx[r].claim_info = Some(Reloaded(ClaimOf(r)).value)

\* the run loaded Alice's claim, which has no vehicle_details, and its
\* dump holds null for it
C22_Witness ==
    /\ Has(1, "load_claim_info")
    /\ calls[1][1].arg = "alice.json"
    /\ ClaimOf(1).vehicle_details = None
    /\ model_dump(ClaimOf(1)).vehicle_details = Null
    /\ Reloaded(ClaimOf(1)).value = ClaimOf(1)
    /\ status[1] = "Done"

(* ------------------------------ the calls of a run --------------------- *)

\* the positions in calls[r] of the calls of the kind op
PositionsOf(r, op) == {i \in 1..Len(calls[r]) : calls[r][i].op = op}

\* the shapes that run r asked the llm for, in the order of the calls
Shapes(r) ==
    [i \in 1..Len(CallsOf(r, "llm")) |-> CallsOf(r, "llm")[i].shape]

\* C23: once retrieve_policy_text has returned, the searches made are the
\* queries of the RetrievalQuerySet, one call each and in their order,
\* followed by one declarations lookup for the policy number of the claim
\* loaded in the run; while the step is at work the searches made are the
\* first queries of the set; a Done run has read its claim once and called
\* the llm twice, for the queries and then for the recommendation.
C23_CallsOfARun ==
    \A r \in Runs :
        /\ Has(r, "generate_policy_queries") =>
            /\ Len(Searched(r)) <= Len(QueriesOf(r))
            /\ Searched(r) = SubSeq(QueriesOf(r), 1, Len(Searched(r)))
            /\ Len(CallsOf(r, "declarations")) <= 1
        /\ Has(r, "retrieve_policy_text") =>
            /\ Searched(r) = QueriesOf(r)
            /\ CallsOf(r, "declarations") =
                 <<[op |-> "declarations", arg |-> ClaimOf(r).policy_number]>>
            /\ \A i \in PositionsOf(r, "aretrieve"), j \in PositionsOf(r, "declarations") :
                 i < j
            /\ ClaimOf(r) = ClaimInfo(FileSystem[calls[r][1].arg].data)
        /\ Len(CallsOf(r, "read")) <= 1
        /\ Len(CallsOf(r, "llm")) <= 2
        /\ status[r] = "Done" =>
            /\ Len(CallsOf(r, "read")) = 1
            /\ Shapes(r) = <<"PolicyQueries", "PolicyRecommendation">>
            /\ Len(calls[r]) = 4 + Len(QueriesOf(r))

\* a Done run of two queries: read, llm, two searches in the order of the
\* queries, the lookup, llm
C23_Witness ==
    /\ status[1] = "Done"
    /\ Len(QueriesOf(1)) = 2
    /\ QueriesOf(1)[1] # QueriesOf(1)[2]
    /\ [i \in 1..6 |-> calls[1][i].op] =
         <<"read", "llm", "aretrieve", "aretrieve", "declarations", "llm">>
    /\ calls[1][3].arg = QueriesOf(1)[1]
    /\ calls[1][4].arg = QueriesOf(1)[2]
    /\ calls[1][5].arg = ClaimOf(1).policy_number

(* ------------------------------ the amounts ---------------------------- *)

\* C24 as claimed: in every Done state the deductible and the recommended
\* payout of the Decision are both at least 0, whatever Recommendation
\* generate_recommendation handed to finalize_decision.
C24_AmountsNonNegative ==
    \A r \in Runs :
        status[r] = "Done" =>
            /\ DecisionOf(r).deductible >= 0
            /\ DecisionOf(r).recommended_payout >= 0

\* the llm answered with a settlement_amount of -100, the answer was taken
\* as a PolicyRecommendation, and the run is Done with a Decision whose
\* recommended payout is -100
C24_Witness ==
    /\ status[1] = "Done"
    /\ RecOf(1).settlement_amount = Some(-100)
    /\ PolicyRecommendationValid(RecOf(1))
    /\ DecisionOf(1).recommended_payout = -100
    /\ result[1] = Some([decision |-> DecisionOf(1)])

\* C25 as claimed: in every Decision that finalize_decision built, a
\* recommended payout above 0 comes with covered = true, and covered =
\* false comes with a recommended payout of 0.
C25_PayoutOnlyIfCovered ==
    \A r \in Runs :
        Finalized(r) =>
            /\ DecisionOf(r).recommended_payout > 0 => DecisionOf(r).covered
            /\ ~DecisionOf(r).covered => DecisionOf(r).recommended_payout = 0

\* a summary without "covered" and a settlement_amount of -100: the
\* Decision is not covered and recommends a payout of -100
C25_Witness ==
    /\ Finalized(1)
    /\ ~MentionsCovered(RecOf(1).recommendation_summary)
    /\ RecOf(1).settlement_amount = Some(-100)
    /\ ~DecisionOf(1).covered
    /\ DecisionOf(1).recommended_payout = -100

(* ------------------------------ reads of the Context ------------------- *)

\* the positions in ctx_ops[r] of the ctx.get calls
Gets(r) == {i \in 1..Len(ctx_ops[r]) : ctx_ops[r][i].op = "get"}

\* the steps that read the Context
Readers == {"retrieve_policy_text", "generate_recommendation", "finalize_decision"}

\* the claim that run r loaded from its file
LoadedClaim(r) == ClaimInfo(FileSystem[calls[r][1].arg].data)

\* every ctx.get so far came after the ctx.set of its key by
\* load_claim_info, no step failed on an unset key, and what the readers
\* made of the value shows the claim that the run loaded
C26_ReadState ==
    \A r \in Runs :
        /\ \A i \in Gets(r) :
            /\ ctx_ops[r][i].key = "claim_info"
            /\ ctx_ops[r][i].step \in Readers
            /\ \E j \in 1..(i - 1) :
                 ctx_ops[r][j] = [op |-> "set", key |-> "claim_info",
                                  step |-> "load_claim_info"]
        /\ error[r] # Some("ValueError")
        /\ Gets(r) # {} =>
            /\ ctx[r].claim_info = Some(LoadedClaim(r))
            /\ ClaimOf(r) = LoadedClaim(r)
        /\ frame[r]["retrieve_policy_text"] # None =>
             frame[r]["retrieve_policy_text"][1].claim_info = LoadedClaim(r)
        /\ \A i \in 1..Len(calls[r]) :
            /\ calls[r][i].op = "declarations" =>
                 calls[r][i].arg = LoadedClaim(r).policy_number
            /\ (calls[r][i].op = "llm" /\ calls[r][i].shape = "PolicyRecommendation") =>
                 calls[r][i].claim_info = LoadedClaim(r)
        /\ Finalized(r) =>
             DecisionOf(r).claim_number = LoadedClaim(r).claim_number

\* a step that reads the Context finds the claim of its run there
C26_ReadStep ==
    \A r \in Runs :
        Cardinality(Gets(r))' > Cardinality(Gets(r)) =>
            /\ ctx[r].claim_info = Some(ClaimOf(r))
            /\ ctx'[r].claim_info = ctx[r].claim_info
            /\ status'[r] = "Running"

\* C26: every read of the Context comes after the write of its key in the
\* same run: when retrieve_policy_text, generate_recommendation or
\* finalize_decision reads "claim_info", load_claim_info of that run has
\* stored it, so none of them fails on an unset key, and what each of them
\* reads is the claim that the run loaded.
C26_ReadsAfterWrite == [](C26_ReadState) /\ [][C26_ReadStep]_vars

\* two runs, one for each claim, both Done after three reads each, each
\* Decision with the claim number of its own run
C26_Witness ==
    /\ status[1] = "Done" /\ status[2] = "Done"
    /\ Cardinality(Gets(1)) = 3 /\ Cardinality(Gets(2)) = 3
    /\ LoadedClaim(1).claim_number = "CLAIM-0001"
    /\ LoadedClaim(2).claim_number = "CLAIM-0002"
    /\ DecisionOf(1).claim_number = "CLAIM-0001"
    /\ DecisionOf(2).claim_number = "CLAIM-0002"

(* ------------------------------ the declarations page ------------------ *)

\* the texts that RetrievedText of run r joins, one per document id
TextsJoined(r) ==
    LET all == Append(SearchDocs(r), DeclarationDoc(r))
        ids == FirstSeen(all, {})
    IN [k \in 1..Len(ids) |-> [id_ |-> ids[k], text |-> LastText(all, ids[k])]]

\* C27: when retrieve_policy_text has returned, the RetrievedText that is
\* queued for generate_recommendation holds the text of the declarations
\* page that the lookup returned for the policy number of the claim, as
\* one of the texts it joins, whatever the queries and the search results
\* were; when a search returned a document of the same id, the text under
\* that id is the text of the declarations page.
C27_DeclarationIncluded ==
    \A r \in Runs :
        Retrieved(r) =>
            LET decl == DeclarationDoc(r) IN
            /\ decl \in DeclarationNodes(ClaimOf(r).policy_number)
            /\ RetrievedText(r) =
                 Join([k \in 1..Len(TextsJoined(r)) |-> TextsJoined(r)[k].text],
                      BlankLine)
            /\ \E k \in 1..Len(TextsJoined(r)) : TextsJoined(r)[k] = decl
            /\ \A k \in 1..Len(TextsJoined(r)) :
                 TextsJoined(r)[k].id_ = decl.id_ => TextsJoined(r)[k].text = decl.text
            /\ Occurrences(decl.text, RetrievedText(r)) >= 1
            /\ inbox[r]["generate_recommendation"] =
                 <<PolicyMatchedEvent(RetrievedText(r))>>

\* a search returned the node n1 and the declarations page has the id n1:
\* the text holds the page and not the node
C27_Witness ==
    /\ Retrieved(1)
    /\ TimesReturned("n1", SearchDocs(1)) >= 1
    /\ DeclarationDoc(1) = [id_ |-> "n1", text |-> <<"Declarations John (copy)">>]
    /\ Occurrences(<<"Declarations John (copy)">>, RetrievedText(1)) = 1
    /\ Occurrences(<<"Collision Coverage">>, RetrievedText(1)) = 0

(* ------------------------------ termination ---------------------------- *)

Terminal == {"Done", "Failed"}

\* run 1 has been started
C28_Started == status[1] # "NotStarted"

\* run 1 is Done with its result or Failed with its error
C28_Ended ==
    /\ status[1] \in Terminal
    /\ status[1] = "Done" => result[1] # None /\ Queued(1) = {}
    /\ status[1] = "Failed" => error[1] # None

\* a run that is Done or Failed takes no further step: only its caller
\* reads the stream and takes the outcome
C28_EndedStays ==
    \A r \in Runs :
        status[r] \in Terminal =>
            /\ Flow(r)' = Flow(r)
            /\ inbox'[r] = inbox[r]
            /\ at'[r] = at[r]
            /\ stream'[r] = stream[r]

\* C28: when every call that a run awaits is answered in the end, with a
\* value or with an error, and the event loop takes up every step that can
\* go on, a run that was started reaches Done or Failed, whatever the
\* number of its queries, and once Done or Failed it takes no further step.
C28_RunTerminates ==
    (C28_Started ~> C28_Ended) /\ [][C28_EndedStays]_vars

\* a Done run of two queries: every search, the lookup and both llm calls
\* were answered
C28_Witness ==
    /\ status[1] = "Done"
    /\ Len(QueriesOf(1)) = 2
    /\ Len(calls[1]) = 6
    /\ Suspended(1) = {}
    /\ Queued(1) = {}
    /\ returned[1] # None

====
